---- MODULE Spec2Model ----
(***************************************************************************)
(* State-machine model of the VEK platform layer: the unified Input state  *)
(* machine (keyboard, mouse, gamepads, background polling threads) and the *)
(* window/graphics Context, for the display-server (Linux) and the         *)
(* native-desktop (Windows) implementations.                               *)
(*                                                                         *)
(* Sections:                                                               *)
(*   1. bounds and program constants                                       *)
(*   2. state                                                              *)
(*   3. key / mouse-button automaton, Update(), code tables                *)
(*   4. Input lifecycle and threads                                        *)
(*   5. the Context                                                        *)
(*   6. specifications and checked properties                              *)
(***************************************************************************)
EXTENDS Integers, Sequences, FiniteSets, TLC

(***************************************************************************)
(* 1. Bounds of the model and program constants                            *)
(***************************************************************************)

\* Update() cycles counted by the history variables after a down-edge.
MaxCycles == 3

\* Pointer coordinates 0..MaxCoord are modelled on each axis.
MaxCoord == 1

\* Gamepad slots 0..MaxPad of m_gamepads are modelled.
MaxPad == 1

\* Axis samples and deadzones are multiples of 1/AxisScale.
AxisScale == 20

MAX_KEYS == 256

MAX_MOUSE_BUTTONS == 5

Released == "Released"

Pressed == "Pressed"

Held == "Held"

InputState == {Released, Pressed, Held}

\* The modelled entries of the 256-entry key table: KeyCode::Unknown (0),
\* which receives every unmapped native code, and KeyCode::Escape (1).
Keys == {0, 1}

\* The modelled entry of the 5-entry button table: MouseButton::Left (0).
Buttons == {0}

Coords == 0..MaxCoord

Platforms == {"Linux", "Windows"}

Pads == 0..MaxPad

\* GamepadButton::Count and GamepadAxis::Count.
GamepadButtonCount == 15

GamepadAxisCount == 6

\* Full scale of a raw joystick axis value.
JS_AXIS_MAX == 32767

\* The hardware deadzone of the left stick in raw units.
XINPUT_GAMEPAD_LEFT_THUMB_DEADZONE == 7849

\* The largest XInput trigger byte.
XINPUT_TRIGGER_MAX == 255

\* The modelled window sizes (m_width, m_height), as indices.
Sizes == {1, 2}

\* The modelled gamepad buttons and axes (GamepadButton::A; GamepadAxis::LeftX
\* and GamepadAxis::LeftTrigger).
PadButtons == {0}

\* GamepadAxis::LeftTrigger.
LeftTrigger == 4

PadAxes == {0, LeftTrigger}

\* The deadzone ConnectGamepad / CheckGamepadConnections assign: 0.15f,
\* i.e. 3/20 in units of 1/AxisScale.
DefaultDeadzone == 3


(***************************************************************************)
(* 2. State                                                                *)
(***************************************************************************)
VARIABLES
    platform,          \* which implementation the build selected
    m_initialized,     \* Input::m_initialized
    keys,              \* m_keyboard.keys            (current state per key)
    previousKeys,      \* m_keyboard.previousKeys    (previous-frame snapshot)
    buttons,           \* m_mouse.buttons
    previousButtons,   \* m_mouse.previousButtons
    mouse,             \* m_mouse: x, y, deltaX, deltaY, lastX, lastY
    m_hwnd,            \* Windows: the Input instance holds a window handle
    osCursor,          \* Windows: the OS cursor position in client coordinates
    m_keyboardDev,     \* keyboard device opened (fd != -1 / m_keyboard != null)
    m_mouseDev,        \* mouse device opened    (fd != -1 / m_mouse != null)
    m_shouldStop,      \* atomic stop flag of the input thread
    inputThread,       \* "none" | "running" | "exited" (finished, not yet joined)
    mainPc,            \* main thread: "idle", inside Shutdown(), or inside a query
    padPresent,        \* per slot: the device feeding it is attached and answers
    pads,              \* m_gamepads: connected, fd, buttons, axes, deadzone, thread
    m_connectedGamepadCount,
    mutexOwner,        \* holder of m_stateMutex at an action boundary, or "free"
    inputPc,           \* Windows input thread: position inside UpdateGamepadStates
    \* history variables (observers; the code does not read them)
    padObs,            \* per gamepad button: Update() cycles since it went down
    unplugObs,         \* per slot: polling cycles completed since it was unplugged
    keyObs,            \* per key: scenario since the last clean down-edge
    btnObs,            \* per mouse button: the same
    lastMain,          \* last main-thread Input call: "Update" | "event" | "other"
    sample,            \* pointer position seen by the last two Update() calls
    initObs,           \* the last Initialize() call: its environment and result
    queryObs,          \* the last getter call: its arguments, result and array reads
    \* the Context (display-server implementation)
    m_display,         \* the display connection is open (non-null)
    m_window,          \* a native window exists (non-zero handle)
    m_visualInfo,      \* a visual has been chosen (non-null)
    m_colormap,        \* a colormap has been created (non-zero)
    m_glContext,       \* a graphics context exists (non-null)
    m_fullscreen,
    m_shouldClose,
    m_visible,
    m_size,            \* (m_width, m_height): 0 for 0x0, else one of Sizes
    m_inputSystem,     \* the Input instance registered for forwarding (0: none)
    ctxObs,            \* history: last Context call, its result, state before it
    m_hdc,             \* WindowsContext: a device context is held (non-null)
    native,            \* per handle member: the native object it names exists
    \* the OS facade
    m_context,         \* the facade holds its Context (non-null)
    m_osInitialized,   \* LinuxOS / WindowsOS m_initialized
    m_input,           \* the Input instance the facade owns (0: none)
    inputsMade,        \* Input instances constructed so far
    osObs              \* history: results of GetInput() since the last Shutdown()

keyVars == <<keys, previousKeys, buttons, previousButtons>>

mouseVars == <<mouse, osCursor>>

lifeVars == <<m_initialized, m_keyboardDev, m_mouseDev, m_shouldStop, inputThread, mainPc>>

obsVars == <<keyObs, btnObs, lastMain, sample>>

padVars == <<padPresent, pads, m_connectedGamepadCount, inputPc>>

padObsVars == <<padObs, unplugObs>>

ctxVars == <<m_display, m_window, m_visualInfo, m_colormap, m_glContext, m_fullscreen,
             m_shouldClose, m_visible, m_size, m_inputSystem, ctxObs, m_hdc, native>>

osVars == <<m_context, m_osInitialized, m_input, inputsMade, osObs>>

inputVars == <<platform, m_hwnd, mutexOwner, keyVars, mouseVars, lifeVars, obsVars, padVars, padObsVars>>

vars == <<inputVars, ctxVars, osVars, initObs, queryObs>>

(***************************************************************************)
(* 3. Key / mouse-button automaton                                         *)
(***************************************************************************)

AbsInt(x) == IF x < 0 THEN -x ELSE x


\* A float in units of 1/AxisScale is the fraction num/den; "nan" and "inf"
\* are the results of dividing by a zero denominator.
Frac(num, den) == [num |-> num, den |-> den]

EdgeStateFromCurrent(cur, prev, pressed) ==
    IF pressed
    THEN IF cur = Released THEN Pressed ELSE Held
    ELSE IF cur # Released THEN Released ELSE cur

\* The transition UpdateKeyState / UpdateMouseButtonState apply to one entry:
\* the new current state from the current state, the previous-frame snapshot
\* entry and the edge.
EdgeState(cur, prev, pressed) ==
    IF pressed
    THEN IF prev = Released THEN Pressed ELSE Held
    ELSE IF prev # Released THEN Released ELSE cur

\* LinuxInput::UpdateKeyState / WindowsInput::UpdateKeyState: the key array
\* after the edge.  Indices outside the modelled part of the table are not
\* tracked.
UpdateKeyState(ks, pks, key, pressed) ==
    IF key >= MAX_KEYS \/ key \notin DOMAIN ks
    THEN ks
    ELSE [ks EXCEPT ![key] = EdgeState(ks[key], pks[key], pressed)]

\* LinuxInput::UpdateMouseButtonState / WindowsInput::UpdateMouseButtonState.
UpdateMouseButtonState(bs, pbs, button, pressed) ==
    IF button >= MAX_MOUSE_BUTTONS \/ button \notin DOMAIN bs
    THEN bs
    ELSE [bs EXCEPT ![button] = EdgeState(bs[button], pbs[button], pressed)]

PromoteNever(cur, prev) == cur

\* The promotion loop of Update(): an entry that is Pressed and whose
\* snapshot entry is Pressed becomes Held.
Promote(cur, prev) ==
    IF prev = Pressed /\ cur = Pressed THEN Held ELSE cur

SnapshotKept(cur, prev) == prev

\* The snapshot copy of Update(): the snapshot entry becomes the current
\* state of the entry.
Snapshot(cur, prev) == cur

KeyIndexInRangeInclusive(keyIndex) == keyIndex <= MAX_KEYS

\* The bounds test of GetKeyState, negated: the index names an entry of
\* the key array.
KeyIndexInRange(keyIndex) == keyIndex < MAX_KEYS

\* No getter has been called.
NoQueryObs == [getter |-> "none", id |-> 0, index |-> 0, result |-> "none", reads |-> {}]

\* GetKeyState: Released when not initialized or out of range.
GetKeyState(key) ==
    IF ~m_initialized THEN Released
    ELSE IF ~KeyIndexInRange(key) \/ key \notin DOMAIN keys THEN Released
    ELSE keys[key]

\* GetMouseButtonState.
GetMouseButtonState(button) ==
    IF ~m_initialized THEN Released
    ELSE IF button >= MAX_MOUSE_BUTTONS \/ button \notin DOMAIN buttons THEN Released
    ELSE buttons[button]

\* GetMouseDelta / GetMousePosition.
GetMouseDelta == <<mouse.deltaX, mouse.deltaY>>

GetMousePosition == <<mouse.x, mouse.y>>

(* ---- native code tables (InitializeKeyMappings), modelled fragment ---- *)

\* m_scancodeToKeyCode: 9 -> Escape(1), 10..18 -> Num1..Num9 (2..10);
\* any other code of the modelled range is unmapped -> KeyCode::Unknown (0).
LinuxScanCodeToKeyCode(scancode) ==
    IF scancode \in 9..18 THEN scancode - 8 ELSE 0

\* The native key codes the environment delivers: one unmapped code (8) and
\* the codes mapped to the modelled keys.
LinuxCodes == {c \in 8..18 : LinuxScanCodeToKeyCode(c) \in Keys}

\* LinuxButtonToMouseButton: 1 Left(0), 2 Middle(2), 3 Right(1), 4 X1(3),
\* 5 X2(4), anything else MouseButton::Count (5, invalid).
LinuxButtonToMouseButton(button) ==
    CASE button = 1 -> 0
      [] button = 2 -> 2
      [] button = 3 -> 1
      [] button = 4 -> 3
      [] button = 5 -> 4
      [] OTHER -> 5

\* Native button numbers delivered: one invalid (0) and those mapped to the
\* modelled buttons.
LinuxButtonCodes == {b \in 0..5 : LinuxButtonToMouseButton(b) \in Buttons \cup {5}}

\* m_virtualKeyToKeyCode: VK_ESCAPE (27) -> Escape(1), '1'..'9' (49..57) ->
\* Num1..Num9 (2..10); other codes unmapped -> KeyCode::Unknown (0).
VirtualKeyToKeyCode(virtualKey) ==
    IF virtualKey = 27 THEN 1
    ELSE IF virtualKey \in 49..57 THEN virtualKey - 47
    ELSE 0

\* The mapped virtual keys of the modelled fragment (the keys of the map the
\* polling loop iterates over).
MappedVKeys == {v \in {27} \cup (49..57) : VirtualKeyToKeyCode(v) \in Keys}

\* Virtual keys delivered by window messages: the mapped ones and one
\* unmapped code (7).
WinVKeys == MappedVKeys \cup {7}

(* ---- history variables ---- *)

\* No Update() has sampled the pointer; no pointer motion is waiting to be
\* reported (pending: by a motion event, by a relative device event; rel:
\* the relative amount of the last motion).
NoSample == [prev |-> <<0, 0>>, cur |-> <<0, 0>>, n |-> 0, pending |-> {}, rel |-> <<0, 0>>]

NoObs == [n |-> -1, rep |-> FALSE, tap |-> 0, up |-> -1, down |-> FALSE]

\* An edge for an entry whose state before the edge is (cur, prev).
\* n:   number of Update() calls since a down-edge that found the entry at
\*      rest (cur = prev = Released) with no up-edge since; -1 if none.
\* rep: a further down-edge arrived during that episode.
\* tap: 1 after a down-edge, 2 after down-edge then up-edge with no Update()
\*      in between, 0 otherwise.
\* up:  number of Update() calls (at most 2 are counted) since the last
\*      edge, when that edge was an up-edge; -1 otherwise.
\* down: the key or button is physically down: a press has been delivered
\*      and no release since (an auto-repeat report is neither).
ObsEdge(o, cur, prev, pressed) ==
    [n   |-> IF ~m_initialized \/ ~pressed THEN -1
             ELSE IF o.n >= 0 THEN o.n
             ELSE IF cur = Released /\ prev = Released THEN 0 ELSE -1,
     rep |-> m_initialized /\ pressed /\ o.n >= 0,
     tap |-> IF ~m_initialized THEN 0
             ELSE IF pressed THEN 1 ELSE IF o.tap = 1 THEN 2 ELSE 0,
     up  |-> IF ~m_initialized \/ pressed THEN -1 ELSE 0,
     down |-> m_initialized /\ pressed]

ObsUpdate(o) ==
    [n   |-> IF o.n < 0 THEN -1 ELSE IF o.n < MaxCycles THEN o.n + 1 ELSE MaxCycles,
     rep |-> o.rep,
     tap |-> 0,
     up  |-> IF o.up < 0 THEN -1 ELSE IF o.up < 2 THEN o.up + 1 ELSE 2,
     down |-> o.down]

\* The observers after UpdateKeyState(key, pressed).
KeyObsEdge(key, pressed) ==
    IF key \in Keys
    THEN [keyObs EXCEPT ![key] = ObsEdge(@, keys[key], previousKeys[key], pressed)]
    ELSE keyObs

BtnObsEdge(button, pressed) ==
    IF button \in Buttons
    THEN [btnObs EXCEPT ![button] = ObsEdge(@, buttons[button], previousButtons[button], pressed)]
    ELSE btnObs

\* Gamepad button observer: Update() cycles since the stored flag went up.
PadObsUpdate ==
    [i \in Pads |-> IF padObs[i] < 0 THEN -1
                    ELSE IF padObs[i] < MaxCycles THEN padObs[i] + 1 ELSE MaxCycles]

PadObsStore(o, old, new) ==
    IF ~new THEN -1 ELSE IF ~old THEN 0 ELSE o

(* ---- Update() ---- *)

\* Input::Update(), Linux: promotion, snapshot copy, mouse delta.
LinuxUpdate ==
    /\ platform = "Linux"
    /\ mainPc = "idle"
    /\ mutexOwner = "free"
    /\ IF ~m_initialized
       THEN UNCHANGED <<keyVars, mouseVars, keyObs, btnObs, sample>>
       ELSE LET nk == [k \in Keys |-> Promote(keys[k], previousKeys[k])]
                nb == [b \in Buttons |-> Promote(buttons[b], previousButtons[b])]
            IN /\ keys' = nk
               /\ previousKeys' = [k \in Keys |-> Snapshot(nk[k], previousKeys[k])]
               /\ buttons' = nb
               /\ previousButtons' = [b \in Buttons |-> Snapshot(nb[b], previousButtons[b])]
               /\ mouse' = [mouse EXCEPT !.deltaX = mouse.x - mouse.lastX,
                                         !.deltaY = mouse.y - mouse.lastY,
                                         !.lastX = mouse.x,
                                         !.lastY = mouse.y]
               /\ UNCHANGED osCursor
               /\ keyObs' = [k \in Keys |-> ObsUpdate(keyObs[k])]
               /\ btnObs' = [b \in Buttons |-> ObsUpdate(btnObs[b])]
               /\ sample' = [sample EXCEPT !.prev = sample.cur, !.cur = <<mouse.x, mouse.y>>,
                                           !.n = IF sample.n < 2 THEN sample.n + 1 ELSE 2]
    /\ lastMain' = "Update"
    /\ padObs' = IF m_initialized THEN PadObsUpdate ELSE padObs
    /\ UNCHANGED <<queryObs, initObs, osVars, ctxVars, platform, m_hwnd, mutexOwner, lifeVars, padVars, unplugObs>>

\* Input::Update(), Windows: the same promotion and snapshot copy; the delta
\* is taken from the OS cursor when GetCursorPos succeeds and a window handle
\* is held, and is zero otherwise.
WindowsUpdate(cursorOk) ==
    /\ platform = "Windows"
    /\ mainPc = "idle"
    /\ mutexOwner = "free"
    /\ IF ~m_initialized
       THEN UNCHANGED <<keyVars, mouseVars, keyObs, btnObs, sample>>
       ELSE LET nk == [k \in Keys |-> Promote(keys[k], previousKeys[k])]
                nb == [b \in Buttons |-> Promote(buttons[b], previousButtons[b])]
            IN /\ keys' = nk
               /\ previousKeys' = [k \in Keys |-> Snapshot(nk[k], previousKeys[k])]
               /\ buttons' = nb
               /\ previousButtons' = [b \in Buttons |-> Snapshot(nb[b], previousButtons[b])]
               /\ IF cursorOk /\ m_hwnd
                  THEN mouse' = [mouse EXCEPT !.deltaX = osCursor[1] - mouse.lastX,
                                              !.deltaY = osCursor[2] - mouse.lastY,
                                              !.x = osCursor[1],
                                              !.y = osCursor[2],
                                              !.lastX = osCursor[1],
                                              !.lastY = osCursor[2]]
                  ELSE mouse' = [mouse EXCEPT !.deltaX = 0, !.deltaY = 0]
               /\ UNCHANGED osCursor
               /\ keyObs' = [k \in Keys |-> ObsUpdate(keyObs[k])]
               /\ btnObs' = [b \in Buttons |-> ObsUpdate(btnObs[b])]
               /\ sample' = [sample EXCEPT !.prev = sample.cur, !.cur = <<mouse'.x, mouse'.y>>,
                                           !.n = IF sample.n < 2 THEN sample.n + 1 ELSE 2]
    /\ lastMain' = "Update"
    /\ padObs' = IF m_initialized THEN PadObsUpdate ELSE padObs
    /\ UNCHANGED <<queryObs, initObs, osVars, ctxVars, platform, m_hwnd, mutexOwner, lifeVars, padVars, unplugObs>>

(***************************************************************************)
(* 4. Input lifecycle, event forwarding and threads                        *)
(***************************************************************************)

\* MAX_GAMEPADS of the selected implementation.
MAX_GAMEPADS == IF platform = "Linux" THEN 8 ELSE 4

\* The gamepad thread holds no record read from the device.
NoEvent == [kind |-> "none", number |-> 0, value |-> 0]

NoPad ==
    [connected |-> FALSE, fd |-> FALSE,
     buttons |-> [b \in PadButtons |-> FALSE],
     axes |-> [a \in PadAxes |-> 0],
     raw |-> [a \in PadAxes |-> 0],
     exact |-> [a \in PadAxes |-> Frac(0, 1)],
     deadzone |-> 0, shouldStop |-> FALSE, thread |-> "none", ev |-> NoEvent]

LoopHead == [at |-> "loop", i |-> 0]

ResetObs ==
    /\ keyObs' = [k \in Keys |-> NoObs]
    /\ btnObs' = [b \in Buttons |-> NoObs]
    /\ padObs' = [i \in Pads |-> -1]
    /\ unplugObs' = [i \in Pads |-> -1]
    /\ lastMain' = "other"

\* No Initialize() call has been made on the instance.
NoInitObs == [ret |-> "none", fresh |-> FALSE, kbd |-> FALSE, mouse |-> FALSE,
              threadOk |-> FALSE, absent |-> {}, thread |-> "none"]

InitializeResultNeedsDevices(kbdOk, mouseOk, threadOk) ==
    IF kbdOk /\ mouseOk /\ threadOk THEN "true" ELSE "false"

\* What Initialize() of a not yet initialized instance returns: true once
\* the input thread is started, whatever devices were opened.  When the
\* thread cannot be created, WindowsInput returns false and LinuxInput lets
\* the exception of the std::thread constructor escape.
InitializeResult(kbdOk, mouseOk, threadOk) ==
    IF threadOk THEN "true"
    ELSE IF platform = "Linux" THEN "throws" ELSE "false"

\* ConnectGamepad(id, path): the slot after the attempt.  ok: open() and the
\* creation of the gamepad thread both succeeded.
ConnectGamepad(g, ok) ==
    IF ok
    THEN [g EXCEPT !.fd = TRUE, !.connected = TRUE, !.deadzone = DefaultDeadzone,
                   !.buttons = [b \in PadButtons |-> FALSE],
                   !.axes = [a \in PadAxes |-> 0],
                   !.raw = [a \in PadAxes |-> 0],
                   !.exact = [a \in PadAxes |-> Frac(0, 1)],
                   !.shouldStop = FALSE, !.thread = "running", !.ev = NoEvent]
    ELSE [g EXCEPT !.fd = FALSE]

\* LinuxInput::Initialize().  kbdOk / mouseOk: the device files open;
\* threadOk: the input thread is created (otherwise the constructor of
\* std::thread throws out of Initialize); n: the number of joystick device
\* nodes ScanForGamepads finds; connOk: the slots whose ConnectGamepad
\* succeeds.
LinuxInitializeEffect(kbdOk, mouseOk, threadOk, n, connOk) ==
    /\ initObs' = IF m_initialized
                  THEN [initObs EXCEPT !.ret = "true", !.fresh = FALSE]
                  ELSE [ret |-> InitializeResult(kbdOk, mouseOk, threadOk), fresh |-> TRUE,
                        kbd |-> kbdOk, mouse |-> mouseOk, threadOk |-> threadOk,
                        absent |-> {i \in Pads : i >= n \/ i \notin connOk},
                        thread |-> IF threadOk THEN "running" ELSE inputThread]
    /\ IF m_initialized
       THEN UNCHANGED <<lifeVars, padVars, padObsVars, keyObs, btnObs, lastMain>>
       ELSE /\ m_keyboardDev' = kbdOk
            /\ m_mouseDev' = mouseOk
            /\ m_shouldStop' = FALSE
            /\ mainPc' = mainPc
            /\ IF threadOk
               THEN /\ inputThread' = "running"
                    /\ m_initialized' = TRUE
                    /\ padPresent' = [i \in Pads |-> i < n]
                    /\ pads' = [i \in Pads |->
                                  IF i < n THEN ConnectGamepad(pads[i], i \in connOk)
                                  ELSE pads[i]]
                    /\ m_connectedGamepadCount' = n
               ELSE /\ UNCHANGED <<inputThread, m_initialized, padPresent, pads,
                                   m_connectedGamepadCount>>
            /\ UNCHANGED inputPc
            /\ ResetObs

\* LinuxInput::Initialize() called on the Input object directly.
LinuxInitialize(kbdOk, mouseOk, threadOk, n, connOk) ==
    /\ platform = "Linux"
    /\ mainPc = "idle"
    /\ LinuxInitializeEffect(kbdOk, mouseOk, threadOk, n, connOk)
    /\ UNCHANGED <<queryObs, osVars, ctxVars, platform, m_hwnd, mutexOwner, keyVars, mouseVars, sample>>

\* WindowsInput::Initialize().  The first CheckGamepadConnections runs on
\* the calling thread.
WindowsInitializeEffect(kbdOk, mouseOk, threadOk) ==
    /\ initObs' = IF m_initialized
                  THEN [initObs EXCEPT !.ret = "true", !.fresh = FALSE]
                  ELSE [ret |-> InitializeResult(kbdOk, mouseOk, threadOk), fresh |-> TRUE,
                        kbd |-> kbdOk, mouse |-> mouseOk, threadOk |-> threadOk,
                        absent |-> {i \in Pads : ~padPresent[i]},
                        thread |-> IF threadOk THEN "running" ELSE inputThread]
    /\ IF m_initialized
       THEN UNCHANGED <<lifeVars, padVars, padObsVars, keyObs, btnObs, lastMain>>
       ELSE /\ m_shouldStop' = FALSE
            /\ mainPc' = mainPc
            /\ IF threadOk
               THEN /\ m_keyboardDev' = kbdOk
                    /\ m_mouseDev' = mouseOk
                    /\ inputThread' = "running"
                    /\ m_initialized' = TRUE
                    /\ pads' = [i \in Pads |->
                                  IF padPresent[i] /\ ~pads[i].connected
                                  THEN [pads[i] EXCEPT !.connected = TRUE,
                                           !.deadzone = DefaultDeadzone,
                                           !.buttons = [b \in PadButtons |-> FALSE],
                                           !.axes = [a \in PadAxes |-> 0],
                                           !.raw = [a \in PadAxes |-> 0],
                                           !.exact = [a \in PadAxes |-> Frac(0, 1)]]
                                  ELSE IF ~padPresent[i]
                                  THEN [pads[i] EXCEPT !.connected = FALSE]
                                  ELSE pads[i]]
                    /\ m_connectedGamepadCount' = Cardinality({i \in Pads : padPresent[i]})
               ELSE /\ m_keyboardDev' = FALSE
                    /\ m_mouseDev' = FALSE
                    /\ UNCHANGED <<inputThread, m_initialized, pads,
                                   m_connectedGamepadCount>>
            /\ UNCHANGED <<padPresent, inputPc>>
            /\ ResetObs

\* WindowsInput::Initialize() called on the Input object directly.
WindowsInitialize(kbdOk, mouseOk, threadOk) ==
    /\ platform = "Windows"
    /\ mainPc = "idle"
    /\ WindowsInitializeEffect(kbdOk, mouseOk, threadOk)
    /\ UNCHANGED <<queryObs, osVars, ctxVars, platform, m_hwnd, mutexOwner, keyVars, mouseVars, sample>>

JoinReturnsAtOnce(thread) == TRUE

\* std::thread::join() on a thread in the given state returns: the thread
\* function has finished, or there is no thread to wait for.
JoinReturns(thread) == thread # "running"

\* The thread object after join(): a finished thread is reaped.
Joined(thread) == IF thread = "exited" THEN "none" ELSE thread

\* The slots ShutdownDevices still has to disconnect.
ConnectedPads == {i \in Pads : pads[i].connected}

MinOf(S) == CHOOSE x \in S : \A y \in S : x <= y

\* Input::Shutdown(), first part: return when not initialized; otherwise
\* raise the stop flag and start waiting in m_inputThread.join().
ShutdownBegin ==
    /\ mainPc = "idle"
    /\ IF ~m_initialized
       THEN UNCHANGED <<lifeVars, padObsVars, keyObs, btnObs, lastMain>>
       ELSE /\ m_shouldStop' = TRUE
            /\ mainPc' = "join_input"
            /\ UNCHANGED <<m_initialized, m_keyboardDev, m_mouseDev, inputThread>>
            /\ ResetObs
    /\ UNCHANGED <<queryObs, initObs, osVars, ctxVars, platform, m_hwnd, mutexOwner, keyVars, mouseVars, sample, padVars>>

\* Input::Shutdown(), join of the input thread returns.  Linux continues
\* with ShutdownDevices: the device files are closed and DisconnectGamepad
\* is entered for the first connected slot (stop flag raised, join pending).
\* Windows releases the DirectInput devices and is done.
ShutdownJoinInput ==
    /\ mainPc = "join_input"
    /\ JoinReturns(inputThread)
    /\ inputThread' = Joined(inputThread)
    /\ m_keyboardDev' = FALSE
    /\ m_mouseDev' = FALSE
    /\ IF platform = "Linux" /\ ConnectedPads # {}
       THEN /\ pads' = [pads EXCEPT ![MinOf(ConnectedPads)].shouldStop = TRUE]
            /\ mainPc' = "join_pad"
            /\ UNCHANGED m_initialized
       ELSE /\ mainPc' = "idle"
            /\ m_initialized' = FALSE
            /\ UNCHANGED pads
    /\ UNCHANGED <<queryObs, initObs, osVars, ctxVars, platform, m_hwnd, mutexOwner, keyVars, mouseVars, obsVars, padObsVars,
                   m_shouldStop, padPresent, m_connectedGamepadCount, inputPc>>

\* DisconnectGamepad(id), after the join of the gamepad thread returns: the
\* device is closed, the slot marked disconnected and the count decremented;
\* ShutdownDevices then enters DisconnectGamepad for the next connected slot
\* or Shutdown() finishes.
DisconnectGamepadJoin ==
    /\ mainPc = "join_pad"
    /\ LET id == MinOf(ConnectedPads)
           done == [pads EXCEPT ![id].thread = Joined(@), ![id].fd = FALSE,
                                ![id].connected = FALSE]
           rest == ConnectedPads \ {id}
       IN /\ JoinReturns(pads[id].thread)
          /\ m_connectedGamepadCount' =
                IF m_connectedGamepadCount > 0 THEN m_connectedGamepadCount - 1
                ELSE m_connectedGamepadCount
          /\ IF rest # {}
             THEN /\ pads' = [done EXCEPT ![MinOf(rest)].shouldStop = TRUE]
                  /\ UNCHANGED <<mainPc, m_initialized>>
             ELSE /\ pads' = done
                  /\ mainPc' = "idle"
                  /\ m_initialized' = FALSE
    /\ UNCHANGED <<queryObs, initObs, osVars, ctxVars, platform, m_hwnd, mutexOwner, keyVars, mouseVars, obsVars, padObsVars,
                   m_keyboardDev, m_mouseDev, m_shouldStop, inputThread, padPresent,
                   inputPc>>

(* ---- event forwarding on the main thread ---- *)

\* LinuxInput::ProcessX11Event, KeyPress / KeyRelease.
X11KeyEvent(keycode, pressed) ==
    /\ platform = "Linux"
    /\ mainPc = "idle"
    /\ mutexOwner = "free"
    /\ keys' = UpdateKeyState(keys, previousKeys, LinuxScanCodeToKeyCode(keycode), pressed)
    /\ keyObs' = KeyObsEdge(LinuxScanCodeToKeyCode(keycode), pressed)
    /\ lastMain' = "event"
    /\ UNCHANGED <<queryObs, initObs, osVars, ctxVars, platform, m_hwnd, mutexOwner, previousKeys, buttons, previousButtons,
                   mouseVars, lifeVars, btnObs, sample, padVars, padObsVars>>

\* LinuxInput::ProcessX11Event, ButtonPress / ButtonRelease at (px, py).
X11ButtonEvent(button, pressed, px, py) ==
    /\ platform = "Linux"
    /\ mainPc = "idle"
    /\ mutexOwner = "free"
    /\ LET b == LinuxButtonToMouseButton(button)
       IN IF b # MAX_MOUSE_BUTTONS
          THEN /\ buttons' = UpdateMouseButtonState(buttons, previousButtons, b, pressed)
               /\ btnObs' = BtnObsEdge(b, pressed)
          ELSE UNCHANGED <<buttons, btnObs>>
    /\ mouse' = [mouse EXCEPT !.x = px, !.y = py]
    /\ lastMain' = "event"
    /\ UNCHANGED <<queryObs, initObs, osVars, ctxVars, platform, m_hwnd, mutexOwner, keys, previousKeys, previousButtons,
                   osCursor, lifeVars, keyObs, sample, padVars, padObsVars>>

\* LinuxInput::ProcessX11Event, MotionNotify.
X11Motion(px, py) ==
    /\ platform = "Linux"
    /\ mainPc = "idle"
    /\ mutexOwner = "free"
    /\ mouse' = [mouse EXCEPT !.x = px, !.y = py]
    /\ lastMain' = "event"
    /\ sample' = [sample EXCEPT !.pending = @ \ {"motion"}]
    /\ UNCHANGED <<queryObs, initObs, osVars, ctxVars, platform, m_hwnd, mutexOwner, keyVars, osCursor, lifeVars, keyObs,
                   btnObs, padVars, padObsVars>>

\* WindowsInput::ProcessWindowMessage, WM_KEYDOWN / WM_KEYUP.
WinKeyMessage(virtualKey, pressed) ==
    /\ platform = "Windows"
    /\ mainPc = "idle"
    /\ mutexOwner = "free"
    /\ keys' = UpdateKeyState(keys, previousKeys, VirtualKeyToKeyCode(virtualKey), pressed)
    /\ keyObs' = KeyObsEdge(VirtualKeyToKeyCode(virtualKey), pressed)
    /\ lastMain' = "event"
    /\ UNCHANGED <<queryObs, initObs, osVars, ctxVars, platform, m_hwnd, mutexOwner, previousKeys, buttons, previousButtons,
                   mouseVars, lifeVars, btnObs, sample, padVars, padObsVars>>

\* WindowsInput::ProcessWindowMessage, WM_xBUTTONDOWN / WM_xBUTTONUP.
WinButtonMessage(button, pressed) ==
    /\ platform = "Windows"
    /\ mainPc = "idle"
    /\ mutexOwner = "free"
    /\ buttons' = UpdateMouseButtonState(buttons, previousButtons, button, pressed)
    /\ btnObs' = BtnObsEdge(button, pressed)
    /\ lastMain' = "event"
    /\ UNCHANGED <<queryObs, initObs, osVars, ctxVars, platform, m_hwnd, mutexOwner, keys, previousKeys, previousButtons,
                   mouseVars, lifeVars, keyObs, sample, padVars, padObsVars>>

\* WindowsInput::ProcessWindowMessage, WM_MOUSEMOVE with client position
\* (px, py), the position the cursor has moved to.
WinMouseMove(px, py) ==
    /\ platform = "Windows"
    /\ mainPc = "idle"
    /\ mutexOwner = "free"
    /\ osCursor = <<px, py>>
    /\ mouse' = [mouse EXCEPT !.x = px, !.y = py]
    /\ lastMain' = "event"
    /\ UNCHANGED <<queryObs, initObs, osVars, ctxVars, platform, m_hwnd, mutexOwner, keyVars, osCursor, lifeVars, keyObs,
                   btnObs, sample, padVars, padObsVars>>

(* ---- the input thread ---- *)

\* LinuxInput::ProcessKeyboardEvents, one EV_KEY record of the keyboard
\* device: value 1 is a press, every other value (0 release, 2 autorepeat)
\* is forwarded as not pressed.
LinuxKeyboardEvent(code, value) ==
    /\ platform = "Linux"
    /\ inputThread = "running"
    /\ m_keyboardDev
    /\ mutexOwner = "free"
    /\ keys' = UpdateKeyState(keys, previousKeys, LinuxScanCodeToKeyCode(code), value = 1)
    /\ keyObs' = [k \in Keys |->
                     IF value = 2 /\ k = LinuxScanCodeToKeyCode(code)
                     THEN [KeyObsEdge(k, FALSE)[k] EXCEPT !.down = keyObs[k].down]
                     ELSE KeyObsEdge(LinuxScanCodeToKeyCode(code), value = 1)[k]]
    /\ UNCHANGED <<queryObs, initObs, osVars, ctxVars, platform, m_hwnd, mutexOwner, previousKeys, buttons, previousButtons,
                   mouseVars, lifeVars, btnObs, lastMain, sample, padVars, padObsVars>>

\* LinuxInput::ProcessMouseEvents, one EV_KEY record of the mouse device;
\* button is ev.code - BTN_MOUSE.
LinuxMouseButtonEvent(button, value) ==
    /\ platform = "Linux"
    /\ inputThread = "running"
    /\ m_mouseDev
    /\ mutexOwner = "free"
    /\ LET b == LinuxButtonToMouseButton(button)
       IN IF b # MAX_MOUSE_BUTTONS
          THEN /\ buttons' = UpdateMouseButtonState(buttons, previousButtons, b, value = 1)
               /\ btnObs' = BtnObsEdge(b, value = 1)
          ELSE UNCHANGED <<buttons, btnObs>>
    /\ UNCHANGED <<queryObs, initObs, osVars, ctxVars, platform, m_hwnd, mutexOwner, keys, previousKeys, previousButtons,
                   mouseVars, lifeVars, keyObs, lastMain, sample, padVars, padObsVars>>

\* LinuxInput::ProcessMouseEvents, one EV_REL record: the position moves by
\* the relative amount (dx on REL_X, dy on REL_Y).
LinuxMouseRel(dx, dy) ==
    /\ platform = "Linux"
    /\ inputThread = "running"
    /\ m_mouseDev
    /\ mutexOwner = "free"
    /\ mouse' = [mouse EXCEPT !.x = mouse.x + dx, !.y = mouse.y + dy]
    /\ sample' = [sample EXCEPT !.pending = @ \ {"rel"}]
    /\ UNCHANGED <<queryObs, initObs, osVars, ctxVars, platform, m_hwnd, mutexOwner, keyVars, osCursor, lifeVars,
                   keyObs, btnObs, lastMain, padVars, padObsVars>>

\* The keys the Windows polling loop writes: the values of the key map.
PolledKeys == {VirtualKeyToKeyCode(v) : v \in MappedVKeys}

\* WindowsInput::UpdateKeyboardState: the device state is read and, under
\* the mutex, UpdateKeyState is applied to every mapped key with its level.
WinPollKeyboard(level) ==
    /\ platform = "Windows"
    /\ inputThread = "running"
    /\ m_keyboardDev
    /\ mutexOwner = "free"
    /\ keys' = [k \in Keys |-> IF k \in PolledKeys
                               THEN EdgeState(keys[k], previousKeys[k], level[k])
                               ELSE keys[k]]
    /\ keyObs' = [k \in Keys |-> IF k \in PolledKeys
                                 THEN ObsEdge(keyObs[k], keys[k], previousKeys[k], level[k])
                                 ELSE keyObs[k]]
    /\ UNCHANGED <<queryObs, initObs, osVars, ctxVars, platform, m_hwnd, mutexOwner, previousKeys, buttons, previousButtons,
                   mouseVars, lifeVars, btnObs, lastMain, sample, padVars, padObsVars>>

\* WindowsInput::UpdateMouseState: Left, Right and Middle get their level;
\* X1 and X2 only when their byte is set.
WinPollMouse(level) ==
    /\ platform = "Windows"
    /\ inputThread = "running"
    /\ m_mouseDev
    /\ mutexOwner = "free"
    /\ buttons' = [b \in Buttons |-> IF b <= 2 \/ level[b]
                                     THEN EdgeState(buttons[b], previousButtons[b], level[b])
                                     ELSE buttons[b]]
    /\ btnObs' = [b \in Buttons |-> IF b <= 2 \/ level[b]
                                    THEN ObsEdge(btnObs[b], buttons[b], previousButtons[b], level[b])
                                    ELSE btnObs[b]]
    /\ UNCHANGED <<queryObs, initObs, osVars, ctxVars, platform, m_hwnd, mutexOwner, keys, previousKeys, previousButtons,
                   mouseVars, lifeVars, keyObs, lastMain, sample, padVars, padObsVars>>

\* CheckGamepadConnections applied to one slot; present: XInputGetState
\* succeeds.
CheckSlot(g, present) ==
    IF present /\ ~g.connected
    THEN [g EXCEPT !.connected = TRUE, !.deadzone = DefaultDeadzone,
                   !.buttons = [b \in PadButtons |-> FALSE],
                   !.axes = [a \in PadAxes |-> 0],
                   !.raw = [a \in PadAxes |-> 0],
                   !.exact = [a \in PadAxes |-> Frac(0, 1)]]
    ELSE IF ~present /\ g.connected
    THEN [g EXCEPT !.connected = FALSE]
    ELSE g

\* WindowsInput::UpdateGamepadStates, entry: CheckGamepadConnections zeroes
\* the count.  A new iteration of the thread loop starts only while the
\* stop flag is down.
WinCheckBegin ==
    /\ platform = "Windows"
    /\ inputThread = "running"
    /\ inputPc.at = "loop"
    /\ ~m_shouldStop
    /\ m_connectedGamepadCount' = 0
    /\ inputPc' = [at |-> "check", i |-> 0]
    /\ UNCHANGED <<queryObs, initObs, osVars, ctxVars, platform, m_hwnd, mutexOwner, keyVars, mouseVars, lifeVars, obsVars,
                   padPresent, pads, padObsVars>>

\* CheckGamepadConnections, one slot of the loop.
WinCheckSlot ==
    /\ platform = "Windows"
    /\ inputPc.at = "check"
    /\ LET i == inputPc.i
           g == CheckSlot(pads[i], padPresent[i])
       IN /\ pads' = [pads EXCEPT ![i] = g]
          /\ m_connectedGamepadCount' =
                IF g.connected THEN m_connectedGamepadCount + 1 ELSE m_connectedGamepadCount
          /\ padObs' = IF g.connected /\ pads[i].connected THEN padObs
                       ELSE [padObs EXCEPT ![i] = -1]
          /\ inputPc' = IF i < MaxPad THEN [at |-> "check", i |-> i + 1]
                        ELSE [at |-> "poll", i |-> 0]
    /\ UNCHANGED <<queryObs, initObs, osVars, ctxVars, platform, m_hwnd, mutexOwner, keyVars, mouseVars, lifeVars, obsVars,
                   padPresent, unplugObs>>

\* NormalizeXInputStick: zero inside the hardware deadzone, otherwise the
\* raw value over 32768 (negative) or 32767, to the nearest multiple of
\* 1/AxisScale.
NormalizeXInputStick(stickValue, deadzone) ==
    IF AbsInt(stickValue) < deadzone THEN 0
    ELSE IF stickValue < 0
    THEN (2 * stickValue * AxisScale + (JS_AXIS_MAX + 1)) \div (2 * (JS_AXIS_MAX + 1))
    ELSE (2 * stickValue * AxisScale + JS_AXIS_MAX) \div (2 * JS_AXIS_MAX)

\* NormalizeXInputStick, the quotient itself.
NormalizeXInputStickExact(stickValue, deadzone) ==
    IF AbsInt(stickValue) < deadzone THEN Frac(0, 1)
    ELSE IF stickValue < 0 THEN Frac(stickValue, JS_AXIS_MAX + 1)
    ELSE Frac(stickValue, JS_AXIS_MAX)

\* NormalizeXInputTrigger: the trigger byte over 255, to the nearest
\* multiple of 1/AxisScale, and the quotient itself.
NormalizeXInputTrigger(triggerValue) ==
    (2 * triggerValue * AxisScale + XINPUT_TRIGGER_MAX) \div (2 * XINPUT_TRIGGER_MAX)

NormalizeXInputTriggerExact(triggerValue) == Frac(triggerValue, XINPUT_TRIGGER_MAX)

\* ProcessXInputGamepad, the axes stored from one XInput packet: the left
\* stick through the hardware deadzone and the left trigger.
StoredXInputAxes(stick, trigger) ==
    (0 :> NormalizeXInputStick(stick, XINPUT_GAMEPAD_LEFT_THUMB_DEADZONE))
        @@ (LeftTrigger :> NormalizeXInputTrigger(trigger))

ExactXInputAxes(stick, trigger) ==
    (0 :> NormalizeXInputStickExact(stick, XINPUT_GAMEPAD_LEFT_THUMB_DEADZONE))
        @@ (LeftTrigger :> NormalizeXInputTriggerExact(trigger))

\* UpdateGamepadStates, one slot of the polling loop: a connected slot is
\* read again; on success ProcessXInputGamepad stores the button flags, the
\* stick sample and the trigger sample when the packet number changed
\* (changed, with the new flag down, the raw stick value stick and the raw
\* trigger byte trigger), on failure
\* the slot is marked disconnected and the count decremented.  After the
\* last slot the iteration is over.
WinPollSlot(changed, down, stick, trigger) ==
    /\ platform = "Windows"
    /\ inputPc.at = "poll"
    /\ LET i == inputPc.i
           g == pads[i]
           last == ~(i < MaxPad)
       IN /\ IF g.connected /\ padPresent[i]
             THEN /\ pads' = IF changed
                             THEN [pads EXCEPT ![i].buttons = [b \in PadButtons |-> down],
                                               ![i].axes = StoredXInputAxes(stick, trigger),
                                               ![i].raw = (0 :> stick) @@ (LeftTrigger :> trigger),
                                               ![i].exact = ExactXInputAxes(stick, trigger)]
                             ELSE pads
                  /\ padObs' = IF changed
                               THEN [padObs EXCEPT ![i] = PadObsStore(@, g.buttons[0], down)]
                               ELSE padObs
                  /\ UNCHANGED m_connectedGamepadCount
             ELSE IF g.connected
             THEN /\ pads' = [pads EXCEPT ![i].connected = FALSE]
                  /\ padObs' = [padObs EXCEPT ![i] = -1]
                  /\ m_connectedGamepadCount' =
                        IF m_connectedGamepadCount > 0 THEN m_connectedGamepadCount - 1
                        ELSE m_connectedGamepadCount
             ELSE UNCHANGED <<pads, padObs, m_connectedGamepadCount>>
          /\ inputPc' = IF last THEN LoopHead ELSE [at |-> "poll", i |-> i + 1]
          /\ unplugObs' = IF last
                          THEN [j \in Pads |-> IF unplugObs[j] \in 0..1
                                               THEN unplugObs[j] + 1 ELSE unplugObs[j]]
                          ELSE unplugObs
    /\ UNCHANGED <<queryObs, initObs, osVars, ctxVars, platform, m_hwnd, mutexOwner, keyVars, mouseVars, lifeVars, obsVars,
                   padPresent>>

\* InputThreadFunction: the loop condition sees the stop flag and the thread
\* function returns.
InputThreadExit ==
    /\ inputThread = "running"
    /\ inputPc.at = "loop"
    /\ m_shouldStop
    /\ inputThread' = "exited"
    /\ UNCHANGED <<queryObs, initObs, osVars, ctxVars, platform, m_hwnd, mutexOwner, keyVars, mouseVars, obsVars, padVars,
                   padObsVars, m_initialized, m_keyboardDev, m_mouseDev, m_shouldStop,
                   mainPc>>

(* ---- the gamepad threads (Linux) ---- *)

\* The loop condition of GamepadThreadFunction.
PadLoopCondition(g) == ~g.shouldStop /\ g.connected

\* GamepadThreadFunction, loop condition true and read() delivers a
\* js_event record: the thread holds the record and is about to store it.
PadThreadRead(i, kind, number, value) ==
    /\ platform = "Linux"
    /\ pads[i].thread = "running"
    /\ pads[i].ev = NoEvent
    /\ PadLoopCondition(pads[i])
    /\ padPresent[i]
    /\ pads' = [pads EXCEPT ![i].ev = [kind |-> kind, number |-> number, value |-> value]]
    /\ UNCHANGED <<queryObs, initObs, osVars, ctxVars, platform, m_hwnd, mutexOwner, keyVars, mouseVars, lifeVars, obsVars,
                   padPresent, m_connectedGamepadCount, inputPc, padObsVars>>

\* The axis sample stored for a raw value: value / 32767.0f, to the nearest
\* multiple of 1/AxisScale.
AxisSample(value) == (2 * value * AxisScale + JS_AXIS_MAX) \div (2 * JS_AXIS_MAX)

\* The same store, the quotient itself.
AxisSampleExact(value) == Frac(value, JS_AXIS_MAX)

\* The raw axis values the device delivers: the range -32767..32767 in
\* AxisScale steps per side.
RawAxisValues == {(k * JS_AXIS_MAX) \div AxisScale : k \in (0 - AxisScale)..AxisScale}

\* GamepadThreadFunction, the store of the record read: no mutex is taken.
PadThreadStore(i) ==
    /\ platform = "Linux"
    /\ pads[i].thread = "running"
    /\ pads[i].ev # NoEvent
    /\ LET e == pads[i].ev
       IN IF e.kind = "button" /\ e.number < GamepadButtonCount /\ e.number \in PadButtons
          THEN /\ pads' = [pads EXCEPT ![i].buttons[e.number] = (e.value # 0),
                                       ![i].ev = NoEvent]
               /\ padObs' = [padObs EXCEPT ![i] =
                                PadObsStore(@, pads[i].buttons[e.number], e.value # 0)]
          ELSE IF e.kind = "axis" /\ e.number < GamepadAxisCount /\ e.number \in PadAxes
          THEN /\ pads' = [pads EXCEPT ![i].axes[e.number] = AxisSample(e.value),
                                       ![i].raw[e.number] = e.value,
                                       ![i].exact[e.number] = AxisSampleExact(e.value),
                                       ![i].ev = NoEvent]
               /\ UNCHANGED padObs
          ELSE /\ pads' = [pads EXCEPT ![i].ev = NoEvent]
               /\ UNCHANGED padObs
    /\ UNCHANGED <<queryObs, initObs, osVars, ctxVars, platform, m_hwnd, mutexOwner, keyVars, mouseVars, lifeVars, obsVars,
                   padPresent, m_connectedGamepadCount, inputPc, unplugObs>>

\* GamepadThreadFunction, read() returns -1 (nothing queued, or the device
\* is gone): the thread sleeps one polling interval and loops.
PadThreadIdle(i) ==
    /\ platform = "Linux"
    /\ pads[i].thread = "running"
    /\ pads[i].ev = NoEvent
    /\ PadLoopCondition(pads[i])
    /\ unplugObs' = [unplugObs EXCEPT ![i] = IF @ \in 0..1 THEN @ + 1 ELSE @]
    /\ UNCHANGED <<queryObs, initObs, osVars, ctxVars, platform, m_hwnd, mutexOwner, keyVars, mouseVars, lifeVars, obsVars,
                   padVars, padObs>>

\* GamepadThreadFunction, the loop condition fails (stop flag raised or slot
\* no longer connected) and the thread function returns.
PadThreadExit(i) ==
    /\ platform = "Linux"
    /\ pads[i].thread = "running"
    /\ pads[i].ev = NoEvent
    /\ ~PadLoopCondition(pads[i])
    /\ pads' = [pads EXCEPT ![i].thread = "exited"]
    /\ UNCHANGED <<queryObs, initObs, osVars, ctxVars, platform, m_hwnd, mutexOwner, keyVars, mouseVars, lifeVars, obsVars,
                   padPresent, m_connectedGamepadCount, inputPc, padObsVars>>

(* ---- environment ---- *)

\* The device behind a connected slot is removed.
Unplug(i) ==
    /\ padPresent[i]
    /\ padPresent' = [padPresent EXCEPT ![i] = FALSE]
    /\ unplugObs' = [unplugObs EXCEPT ![i] =
                        IF m_initialized /\ mainPc \notin {"join_input", "join_pad"}
                           /\ pads[i].connected
                        THEN 0 ELSE -1]
    /\ UNCHANGED <<queryObs, initObs, osVars, ctxVars, platform, m_hwnd, mutexOwner, keyVars, mouseVars, lifeVars, obsVars,
                   pads, m_connectedGamepadCount, inputPc, padObs>>

\* A controller is attached to an XInput slot.
PlugIn(i) ==
    /\ platform = "Windows"
    /\ ~padPresent[i]
    /\ padPresent' = [padPresent EXCEPT ![i] = TRUE]
    /\ unplugObs' = [unplugObs EXCEPT ![i] = -1]
    /\ UNCHANGED <<queryObs, initObs, osVars, ctxVars, platform, m_hwnd, mutexOwner, keyVars, mouseVars, lifeVars, obsVars,
                   pads, m_connectedGamepadCount, inputPc, padObs>>

\* The OS cursor moves on Windows (its WM_MOUSEMOVE is delivered separately).
WinCursorMoves(px, py) ==
    /\ platform = "Windows"
    /\ osCursor # <<px, py>>
    /\ osCursor' = <<px, py>>
    /\ UNCHANGED <<queryObs, initObs, osVars, ctxVars, platform, m_hwnd, mutexOwner, keyVars, mouse, lifeVars, obsVars,
                   padVars, padObsVars>>

(* ---- gamepad queries and setters on the main thread ---- *)

PadQueries == {"GetGamepadAxis", "GetGamepadButtonState", "IsGamepadConnected",
               "GetConnectedGamepadCount"}

\* A gamepad query is entered: none of them takes m_stateMutex; the reads
\* of the slot happen between entry and return.
PadQueryBegin(q) ==
    /\ mainPc = "idle"
    /\ mainPc' = q
    /\ UNCHANGED <<queryObs, initObs, osVars, ctxVars, platform, m_hwnd, mutexOwner, keyVars, mouseVars, obsVars, padVars,
                   padObsVars, m_initialized, m_keyboardDev, m_mouseDev, m_shouldStop,
                   inputThread>>

PadQueryEnd ==
    /\ mainPc \in PadQueries
    /\ mainPc' = "idle"
    /\ UNCHANGED <<queryObs, initObs, osVars, ctxVars, platform, m_hwnd, mutexOwner, keyVars, mouseVars, obsVars, padVars,
                   padObsVars, m_initialized, m_keyboardDev, m_mouseDev, m_shouldStop,
                   inputThread>>

\* IsGamepadConnected / GetConnectedGamepadCount: the values read.
IsGamepadConnected(gamepadId) ==
    IF gamepadId >= MAX_GAMEPADS \/ gamepadId \notin Pads THEN FALSE
    ELSE pads[gamepadId].connected

GetConnectedGamepadCount == m_connectedGamepadCount

\* GetGamepadButtonState: Released for a bad id, a disconnected slot or a
\* bad button; otherwise Held when the stored flag is set, else Released.
GetGamepadButtonState(gamepadId, button) ==
    IF gamepadId >= MAX_GAMEPADS \/ gamepadId \notin Pads THEN Released
    ELSE IF ~pads[gamepadId].connected THEN Released
    ELSE IF button >= GamepadButtonCount \/ button \notin PadButtons THEN Released
    ELSE IF pads[gamepadId].buttons[button] THEN Held ELSE Released

ApplyDeadzoneNoRescale(value, deadzone) ==
    IF deadzone <= 0 THEN Frac(value, AxisScale)
    ELSE IF AbsInt(value) < deadzone THEN Frac(0, AxisScale)
    ELSE Frac(value, AxisScale)

\* ApplyDeadzone(value, deadzone): value unchanged for deadzone <= 0; zero
\* inside the deadzone; otherwise (|value| - deadzone) / (1 - deadzone) with
\* the sign of value.
ApplyDeadzone(value, deadzone) ==
    IF deadzone <= 0 THEN Frac(value, AxisScale)
    ELSE IF AbsInt(value) < deadzone THEN Frac(0, AxisScale)
    ELSE LET scaledNum == AbsInt(value) - deadzone
             scaledDen == AxisScale - deadzone
         IN Frac(IF value < 0 THEN -scaledNum ELSE scaledNum, scaledDen)

\* GetGamepadAxis: 0.0f for a bad id, a disconnected slot or a bad axis;
\* otherwise the stored sample through ApplyDeadzone.
GetGamepadAxis(gamepadId, axis) ==
    IF gamepadId >= MAX_GAMEPADS \/ gamepadId \notin Pads THEN Frac(0, AxisScale)
    ELSE IF ~pads[gamepadId].connected THEN Frac(0, AxisScale)
    ELSE IF axis >= GamepadAxisCount \/ axis \notin PadAxes THEN Frac(0, AxisScale)
    ELSE ApplyDeadzone(pads[gamepadId].axes[axis], pads[gamepadId].deadzone)

\* SetGamepadDeadzone: ignored for a bad id or a disconnected slot.
SetGamepadDeadzone(gamepadId, deadzone) ==
    /\ mainPc = "idle"
    /\ pads' = IF gamepadId >= MAX_GAMEPADS \/ gamepadId \notin Pads THEN pads
               ELSE IF ~pads[gamepadId].connected THEN pads
               ELSE [pads EXCEPT ![gamepadId].deadzone = deadzone]
    /\ UNCHANGED <<queryObs, initObs, osVars, ctxVars, platform, m_hwnd, mutexOwner, keyVars, mouseVars, lifeVars, obsVars,
                   padPresent, m_connectedGamepadCount, inputPc, padObsVars>>

\* SetX11Window / SetWindowHandle: the Input instance is given the window.
SetWindowHandle ==
    /\ mainPc = "idle"
    /\ m_hwnd' = TRUE
    /\ UNCHANGED <<queryObs, initObs, osVars, ctxVars, platform, mutexOwner, keyVars, mouseVars, lifeVars, obsVars, padVars,
                   padObsVars>>

\* SetMousePosition: ignored unless initialized with a window; the pointer
\* is warped and the stored position set.
SetMousePosition(px, py) ==
    /\ mainPc = "idle"
    /\ mutexOwner = "free"
    /\ IF ~m_initialized \/ ~m_hwnd
       THEN UNCHANGED mouseVars
       ELSE /\ mouse' = [mouse EXCEPT !.x = px, !.y = py]
            /\ osCursor' = IF platform = "Windows" THEN <<px, py>> ELSE osCursor
    /\ lastMain' = "other"
    /\ UNCHANGED <<queryObs, initObs, osVars, ctxVars, platform, m_hwnd, mutexOwner, keyVars, lifeVars, keyObs, btnObs, sample,
                   padVars, padObsVars>>

(* ---- getters with arbitrary arguments ---- *)

\* GetGamepadState: nullptr for a bad id or a disconnected slot.
GetGamepadState(gamepadId) ==
    IF gamepadId >= MAX_GAMEPADS \/ gamepadId \notin Pads THEN "null"
    ELSE IF ~pads[gamepadId].connected THEN "null"
    ELSE "state"

\* The entries of the name tables for the modelled codes: KeyCode::Escape,
\* MouseButton::Left, GamepadButton::A.
m_keyNames == (1 :> "Escape")

m_mouseButtonNames == (0 :> "Left Mouse Button")

m_gamepadButtonNames == (0 :> "A")

\* GetKeyName / GetMouseButtonName / GetGamepadButtonName: the table entry
\* when find() has one, else "Unknown".
GetKeyName(key) == IF key \in DOMAIN m_keyNames THEN m_keyNames[key] ELSE "Unknown"

GetMouseButtonName(button) ==
    IF button \in DOMAIN m_mouseButtonNames THEN m_mouseButtonNames[button] ELSE "Unknown"

GetGamepadButtonName(button) ==
    IF button \in DOMAIN m_gamepadButtonNames THEN m_gamepadButtonNames[button] ELSE "Unknown"

Getters == {"GetKeyState", "GetMouseButtonState", "IsGamepadConnected", "GetGamepadState",
            "GetGamepadButtonState", "GetGamepadAxis", "GetKeyName", "GetMouseButtonName",
            "GetGamepadButtonName"}

\* Number of entries of the fixed arrays the getters index.
ArraySize(array) ==
    CASE array = "keys" -> MAX_KEYS
      [] array = "buttons" -> MAX_MOUSE_BUTTONS
      [] array = "m_gamepads" -> MAX_GAMEPADS
      [] array = "state.buttons" -> GamepadButtonCount
      [] array = "state.axes" -> GamepadAxisCount

\* The slot the getter has indexed is connected (slots beyond the modelled
\* ones are never connected).
SlotConnected(id) == id \in Pads /\ pads[id].connected

\* The array entries <<array, index>> the getter reads for its arguments:
\* each read comes after the bounds test the code makes for it.
GetterReads(getter, id, index) ==
    CASE getter = "GetKeyState" ->
            IF m_initialized /\ KeyIndexInRange(index) THEN {<<"keys", index>>} ELSE {}
      [] getter = "GetMouseButtonState" ->
            IF m_initialized /\ index < MAX_MOUSE_BUTTONS THEN {<<"buttons", index>>} ELSE {}
      [] getter \in {"IsGamepadConnected", "GetGamepadState"} ->
            IF id < MAX_GAMEPADS THEN {<<"m_gamepads", id>>} ELSE {}
      [] getter = "GetGamepadButtonState" ->
            IF id >= MAX_GAMEPADS THEN {}
            ELSE {<<"m_gamepads", id>>} \union
                 (IF SlotConnected(id) /\ index < GamepadButtonCount
                  THEN {<<"state.buttons", index>>} ELSE {})
      [] getter = "GetGamepadAxis" ->
            IF id >= MAX_GAMEPADS THEN {}
            ELSE {<<"m_gamepads", id>>} \union
                 (IF SlotConnected(id) /\ index < GamepadAxisCount
                  THEN {<<"state.axes", index>>} ELSE {})
      [] OTHER -> {}

\* The value the getter returns.
GetterResult(getter, id, index) ==
    CASE getter = "GetKeyState" -> GetKeyState(index)
      [] getter = "GetMouseButtonState" -> GetMouseButtonState(index)
      [] getter = "IsGamepadConnected" -> IsGamepadConnected(id)
      [] getter = "GetGamepadState" -> GetGamepadState(id)
      [] getter = "GetGamepadButtonState" -> GetGamepadButtonState(id, index)
      [] getter = "GetGamepadAxis" -> GetGamepadAxis(id, index)
      [] getter = "GetKeyName" -> GetKeyName(index)
      [] getter = "GetMouseButtonName" -> GetMouseButtonName(index)
      [] getter = "GetGamepadButtonName" -> GetGamepadButtonName(index)

\* One getter call on the main thread.  The getters are const: nothing but
\* the history record changes.  A read past the end of an array yields an
\* arbitrary value.
GetterCall(getter, id, index) ==
    /\ mainPc = "idle"
    /\ mutexOwner = "free"
    /\ LET reads == GetterReads(getter, id, index)
           obs == [getter |-> getter, id |-> id, index |-> index,
                   result |-> GetterResult(getter, id, index), reads |-> reads]
       IN \/ queryObs' = obs
          \/ /\ \E rd \in reads : rd[2] >= ArraySize(rd[1])
             /\ queryObs' = [obs EXCEPT !.result = "garbage"]
    /\ UNCHANGED <<inputVars, ctxVars, osVars, initObs>>

(***************************************************************************)
(* 5. The Context (display-server implementation)                          *)
(***************************************************************************)

\* The Context members a caller can observe, after the constructor.
NoCtxState == [window |-> FALSE, visualInfo |-> FALSE, colormap |-> FALSE,
               glContext |-> FALSE, hdc |-> FALSE, fullscreen |-> FALSE,
               shouldClose |-> FALSE, visible |-> TRUE, size |-> 0]

NoCtxObs == [last |-> "none", ret |-> TRUE, shouldClose |-> FALSE, fullscreen |-> FALSE,
             set |-> FALSE, pre |-> NoCtxState, prev |-> "none", arg |-> FALSE,
             requests |-> 0, misuse |-> FALSE, log |-> <<>>, closeReq |-> FALSE,
             reg |-> "none", destroyed |-> FALSE, leaked |-> {}]

\* No native object exists.
NoNative == [window |-> FALSE, visual |-> FALSE, colormap |-> FALSE, glContext |-> FALSE,
             dc |-> FALSE, class |-> FALSE]

\* The Context after its constructor: the display connection is open when
\* XOpenDisplay succeeded; every other member has its default.
InitContext ==
    /\ m_display \in BOOLEAN
    /\ m_window = FALSE
    /\ m_visualInfo = FALSE
    /\ m_colormap = FALSE
    /\ m_glContext = FALSE
    /\ m_fullscreen = FALSE
    /\ m_shouldClose = FALSE
    /\ m_visible = TRUE
    /\ m_size = 0
    /\ m_inputSystem = 0
    /\ ctxObs = NoCtxObs
    /\ m_hdc = FALSE
    /\ native = NoNative

\* The Context members in the current state.
CtxState == [window |-> m_window, visualInfo |-> m_visualInfo, colormap |-> m_colormap,
             glContext |-> m_glContext, hdc |-> m_hdc, fullscreen |-> m_fullscreen,
             shouldClose |-> m_shouldClose, visible |-> m_visible, size |-> m_size]

\* What the Context's m_inputSystem points to: nothing, the facade's live
\* Input instance, or an instance that has been destroyed.
RegState ==
    IF m_inputSystem = 0 THEN "none"
    ELSE IF m_inputSystem = m_input THEN "live" ELSE "dangling"

\* The history record of a Context call made in the current state.
CallObs(name, ret, set) ==
    [last |-> name, ret |-> ret, shouldClose |-> m_shouldClose,
     fullscreen |-> m_fullscreen, set |-> ctxObs.set \/ set,
     pre |-> CtxState, prev |-> ctxObs.last, arg |-> FALSE, requests |-> 0,
     misuse |-> FALSE, log |-> <<>>, closeReq |-> ctxObs.closeReq, reg |-> RegState,
     destroyed |-> ctxObs.destroyed \/ (name = "DestroyWindow" /\ m_window),
     leaked |-> {}]

\* Context accessors.
ShouldClose == m_shouldClose

IsWindowFullscreen == m_fullscreen

GetNativeWindowHandle == IF m_window THEN "window" ELSE "null"

GetGraphicsContextHandleStale == "context"

GetGraphicsContextHandle == IF m_glContext THEN "context" ELSE "null"

DisplayAssumedOpen(display) == TRUE

\* The guard at the top of CreateWindow: the display connection is open.
DisplayOpen(display) == display

ReleasedHandleKept(handle) == handle

\* A handle member after its release block in DestroyWindow /
\* DestroyGraphicsContext: the member is reset to null.
ReleasedHandle(handle) == FALSE

\* A native call is made on a handle that is non-null but whose object has
\* been released, or on a null display connection.
BadUse(handle, live, display) == handle /\ (~live \/ ~display)

\* The handle member of the given kind names a live native object.
LiveHandle(kind) ==
    CASE kind = "visual" -> m_visualInfo /\ native.visual
      [] kind = "colormap" -> m_colormap /\ native.colormap
      [] kind = "window" -> m_window /\ native.window
      [] kind = "glContext" -> m_glContext /\ native.glContext
      [] kind = "dc" -> m_hdc /\ native.dc

\* The kinds of native object that stay live with no handle naming them,
\* once a call has assigned the handle members of the given kinds anew.
Overwritten(kinds) == {k \in kinds : LiveHandle(k)}

\* The history record of a CreateWindow call that assigned those members.
CreateObs(ret, kinds) ==
    [CallObs("CreateWindow", ret, FALSE) EXCEPT !.leaked = Overwritten(kinds)]

\* InitializeGraphicsContext: fails without display, window or visual;
\* glOk: context creation, make-current and the loader all succeed, else
\* the context is destroyed again.
InitializeGraphicsContext(glOk) ==
    /\ platform = "Linux"
    /\ IF ~m_display \/ ~m_window \/ ~m_visualInfo
       THEN /\ UNCHANGED <<m_glContext, native>>
            /\ ctxObs' = [CallObs("InitializeGraphicsContext", FALSE, FALSE)
                            EXCEPT !.arg = "precondition"]
       ELSE /\ m_glContext' = glOk
            /\ native' = [native EXCEPT !.glContext = glOk]
            /\ ctxObs' = [CallObs("InitializeGraphicsContext", glOk, FALSE)
                            EXCEPT !.misuse = ~native.window \/ ~native.visual,
                                   !.arg = "context",
                                   !.leaked = Overwritten({"glContext"})]
    /\ UNCHANGED <<queryObs, initObs, osVars, inputVars, m_display, m_window, m_visualInfo, m_colormap,
                   m_fullscreen, m_shouldClose, m_visible, m_size, m_inputSystem, m_hdc>>

\* CreateWindow(width, height, title): false at once without a display;
\* otherwise the size is stored, the visual chosen (visualOk), the colormap
\* and the window created (windowOk), the window mapped and the result is
\* that of InitializeGraphicsContext (glOk).
CreateWindow(size, visualOk, windowOk, glOk) ==
    /\ platform = "Linux"
    /\ IF ~DisplayOpen(m_display)
       THEN /\ UNCHANGED <<m_size, m_visualInfo, m_colormap, m_window, m_glContext, native>>
            /\ ctxObs' = CallObs("CreateWindow", FALSE, FALSE)
       ELSE /\ m_size' = size
            /\ m_visualInfo' = visualOk
            /\ IF ~visualOk
               THEN /\ UNCHANGED <<m_colormap, m_window, m_glContext>>
                    /\ native' = [native EXCEPT !.visual = FALSE]
                    /\ ctxObs' = CreateObs(FALSE, {"visual"})
               ELSE /\ m_colormap' = TRUE
                    /\ m_window' = windowOk
                    /\ IF ~windowOk
                       THEN /\ UNCHANGED m_glContext
                            /\ native' = [native EXCEPT !.visual = TRUE, !.colormap = TRUE,
                                                        !.window = FALSE]
                            /\ ctxObs' = CreateObs(FALSE, {"visual", "colormap", "window"})
                       ELSE /\ m_glContext' = glOk
                            /\ native' = [native EXCEPT !.visual = TRUE, !.colormap = TRUE,
                                                        !.window = TRUE, !.glContext = glOk]
                            /\ ctxObs' = CreateObs(glOk, {"visual", "colormap", "window",
                                                          "glContext"})
    /\ UNCHANGED <<queryObs, initObs, osVars, inputVars, m_display, m_fullscreen, m_shouldClose, m_visible,
                   m_inputSystem, m_hdc>>

\* The members and native objects after LinuxContext::DestroyWindow: the
\* graphics context, the window, the colormap and the visual are released
\* when their handle is non-null, and the handle is reset.
DestroyWindowEffect ==
    /\ m_glContext' = (m_glContext /\ ReleasedHandle(m_glContext))
    /\ m_window' = (m_window /\ ReleasedHandle(m_window))
    /\ m_colormap' = (m_colormap /\ ReleasedHandle(m_colormap))
    /\ m_visualInfo' = (m_visualInfo /\ ReleasedHandle(m_visualInfo))
    /\ native' = [native EXCEPT !.glContext = FALSE, !.window = FALSE,
                                !.colormap = FALSE, !.visual = FALSE]

\* DestroyWindow made a native call on a released handle or a null display.
DestroyWindowMisuse ==
    \/ BadUse(m_glContext, native.glContext, m_display)
    \/ BadUse(m_window, native.window, m_display)
    \/ BadUse(m_colormap, native.colormap, m_display)
    \/ BadUse(m_visualInfo, native.visual, TRUE)

\* LinuxContext::DestroyWindow.
DestroyWindow ==
    /\ platform = "Linux"
    /\ DestroyWindowEffect
    /\ ctxObs' = [CallObs("DestroyWindow", TRUE, FALSE) EXCEPT !.misuse = DestroyWindowMisuse]
    /\ UNCHANGED <<queryObs, initObs, osVars, inputVars, m_display, m_fullscreen, m_shouldClose, m_visible, m_size,
                   m_inputSystem, m_hdc>>

FullscreenNeverSame(current, requested) == FALSE

\* The early return of SetWindowFullscreen: the requested state is the
\* current one.
FullscreenSame(current, requested) == current = requested

\* LinuxContext::SetWindowFullscreen: nothing when the flag already has the
\* value; otherwise the flag is stored and, when a window exists, one client
\* message is sent to the window manager.
SetWindowFullscreen(fullscreen) ==
    /\ platform = "Linux"
    /\ IF FullscreenSame(m_fullscreen, fullscreen)
       THEN /\ UNCHANGED m_fullscreen
            /\ ctxObs' = [CallObs("SetWindowFullscreen", TRUE, TRUE) EXCEPT !.arg = fullscreen]
       ELSE /\ m_fullscreen' = fullscreen
            /\ ctxObs' = [CallObs("SetWindowFullscreen", TRUE, TRUE)
                            EXCEPT !.arg = fullscreen,
                                   !.requests = IF m_window THEN 1 ELSE 0,
                                   !.misuse = BadUse(m_window, native.window, m_display)]
    /\ UNCHANGED <<queryObs, initObs, osVars, inputVars, m_display, m_window, m_visualInfo, m_colormap, m_glContext,
                   m_shouldClose, m_visible, m_size, m_inputSystem, m_hdc, native>>

\* SetShouldClose (the same inline setter in both implementations).
SetShouldClose(shouldClose) ==
    /\ m_shouldClose' = shouldClose
    /\ ctxObs' = [CallObs("SetShouldClose", TRUE, TRUE)
                    EXCEPT !.arg = shouldClose, !.closeReq = shouldClose]
    /\ UNCHANGED <<queryObs, initObs, osVars, inputVars, m_display, m_window, m_visualInfo, m_colormap, m_glContext,
                   m_fullscreen, m_visible, m_size, m_inputSystem, m_hdc, native>>

\* ShowWindow / HideWindow: only with a window (the same in both
\* implementations).
ShowHideWindow(show) ==
    /\ m_visible' = IF m_window THEN show ELSE m_visible
    /\ ctxObs' = [CallObs("ShowHideWindow", TRUE, FALSE)
                    EXCEPT !.misuse = BadUse(m_window, native.window,
                                             platform = "Windows" \/ m_display)]
    /\ UNCHANGED <<queryObs, initObs, osVars, inputVars, m_display, m_window, m_visualInfo, m_colormap, m_glContext,
                   m_fullscreen, m_shouldClose, m_size, m_inputSystem, m_hdc, native>>

\* Event types the Input instance ignores and the Context handles (or
\* ignores as well: Expose).
ContextEvents == {"DeleteWindow", "ConfigureNotify", "MapNotify", "UnmapNotify",
                  "DestroyNotify", "Expose"}

\* The events by which the window system asks the application to end.
CloseRequests == {"DeleteWindow", "DestroyNotify", "WM_CLOSE", "WM_QUIT"}

\* Key events carry the X keycode of the Escape key.
DrainedKeycode == 9

KeyEvents == {"KeyPress", "KeyRelease"}

X11Events == ContextEvents \union KeyEvents

HandleEventContextFirst(registered) ==
    IF registered THEN <<"context", "input">> ELSE <<"context">>

\* The order in which HandleEvent / WindowProc hands one event on: first
\* to the registered Input instance, then to the Context's own switch.
HandleEventOrder(registered) ==
    IF registered THEN <<"input", "context">> ELSE <<"context">>

\* The registered Input instance is the one the facade owns (in particular
\* it has not been destroyed).
RegisteredLive == m_inputSystem # 0 /\ m_inputSystem = m_input

\* LinuxContext::HandleEvent for one drained event: ProcessX11Event of the
\* registered Input instance, then the Context's own handling.  A registered
\* pointer to a destroyed instance is dereferenced all the same.
HandleEvent(type, size) ==
    /\ IF RegisteredLive /\ type \in KeyEvents
       THEN /\ keys' = UpdateKeyState(keys, previousKeys,
                                      LinuxScanCodeToKeyCode(DrainedKeycode),
                                      type = "KeyPress")
            /\ keyObs' = KeyObsEdge(LinuxScanCodeToKeyCode(DrainedKeycode),
                                    type = "KeyPress")
            /\ lastMain' = "event"
       ELSE UNCHANGED <<keys, keyObs, lastMain>>
    /\ osObs' = [osObs EXCEPT !.ub = @ \/ (m_inputSystem # 0 /\ ~RegisteredLive)]
    /\ m_shouldClose' = IF type \in {"DeleteWindow", "DestroyNotify"} THEN TRUE
                        ELSE m_shouldClose
    /\ m_size' = IF type = "ConfigureNotify" THEN size ELSE m_size
    /\ m_visible' = IF type = "MapNotify" THEN TRUE
                    ELSE IF type = "UnmapNotify" THEN FALSE ELSE m_visible

\* The history record of a call that drained one event.
DrainObs(name, ret, type, order) ==
    [CallObs(name, ret, TRUE) EXCEPT !.arg = type, !.log = order,
                                     !.closeReq = @ \/ type \in CloseRequests]

PollResultAlways(shouldClose) == TRUE

\* The value PollEvents returns: whether the loop should continue.
PollResult(shouldClose) == ~shouldClose

\* LinuxContext::PollEvents with one pending event.  Events arrive for an
\* existing window on an open display.
PollEvents(type, size) ==
    /\ platform = "Linux"
    /\ m_display /\ m_window
    /\ mainPc = "idle" /\ mutexOwner = "free"
    /\ HandleEvent(type, size)
    /\ ctxObs' = DrainObs("PollEvents", PollResult(m_shouldClose'), type,
                          HandleEventOrder(m_inputSystem # 0))
    /\ UNCHANGED <<queryObs, initObs, m_context, m_osInitialized, m_input, inputsMade, platform, m_hwnd, mutexOwner,
                   previousKeys, buttons, previousButtons, mouseVars, lifeVars, btnObs, sample,
                   padVars, padObsVars, m_display, m_window, m_visualInfo, m_colormap,
                   m_glContext, m_fullscreen, m_inputSystem, m_hdc, native>>

\* LinuxContext::WaitEvents: blocks for one event when none is pending,
\* then drains the queue; it returns nothing.
WaitEvents(type, size) ==
    /\ platform = "Linux"
    /\ m_display /\ m_window
    /\ mainPc = "idle" /\ mutexOwner = "free"
    /\ HandleEvent(type, size)
    /\ ctxObs' = DrainObs("WaitEvents", TRUE, type, HandleEventOrder(m_inputSystem # 0))
    /\ UNCHANGED <<queryObs, initObs, m_context, m_osInitialized, m_input, inputsMade, platform, m_hwnd, mutexOwner,
                   previousKeys, buttons, previousButtons, mouseVars, lifeVars, btnObs, sample,
                   padVars, padObsVars, m_display, m_window, m_visualInfo, m_colormap,
                   m_glContext, m_fullscreen, m_inputSystem, m_hdc, native>>

(* ---- WindowsContext ---- *)

\* WindowsContext::InitializeGraphicsContext.  pixelOk: a pixel format is
\* chosen and set; glOk: context creation, make-current and the loader
\* succeed, else the context is deleted again.
WinInitializeGraphicsContext(pixelOk, glOk) ==
    /\ platform = "Windows"
    /\ IF ~m_hdc \/ ~pixelOk
       THEN /\ UNCHANGED <<m_glContext, native>>
            /\ ctxObs' = [CallObs("InitializeGraphicsContext", FALSE, FALSE)
                            EXCEPT !.misuse = BadUse(m_hdc, native.dc, TRUE),
                                   !.arg = "precondition"]
       ELSE /\ m_glContext' = glOk
            /\ native' = [native EXCEPT !.glContext = glOk]
            /\ ctxObs' = [CallObs("InitializeGraphicsContext", glOk, FALSE)
                            EXCEPT !.misuse = BadUse(m_hdc, native.dc, TRUE),
                                   !.arg = "context",
                                   !.leaked = Overwritten({"glContext"})]
    /\ UNCHANGED <<queryObs, initObs, osVars, inputVars, m_display, m_window, m_visualInfo, m_colormap,
                   m_fullscreen, m_shouldClose, m_visible, m_size, m_inputSystem, m_hdc>>

\* WindowsContext::CreateWindow.  The size is stored first.  classOk: the
\* window class can be registered (it never can while it is registered
\* already); windowOk: CreateWindowEx succeeds; dcOk: GetDC succeeds; then
\* the result is that of InitializeGraphicsContext.
WinCreateWindow(size, classOk, windowOk, dcOk, pixelOk, glOk) ==
    /\ platform = "Windows"
    /\ m_size' = size
    /\ IF ~classOk \/ native.class
       THEN /\ UNCHANGED <<m_window, m_hdc, m_glContext, native>>
            /\ ctxObs' = CallObs("CreateWindow", FALSE, FALSE)
       ELSE /\ m_window' = windowOk
            /\ IF ~windowOk
               THEN /\ UNCHANGED <<m_hdc, m_glContext>>
                    /\ native' = [native EXCEPT !.class = TRUE, !.window = FALSE]
                    /\ ctxObs' = CreateObs(FALSE, {"window"})
               ELSE /\ m_hdc' = dcOk
                    /\ IF ~dcOk \/ ~pixelOk
                       THEN /\ UNCHANGED m_glContext
                            /\ native' = [native EXCEPT !.class = TRUE, !.window = TRUE,
                                                        !.dc = dcOk]
                            /\ ctxObs' = CreateObs(FALSE, {"window", "dc"})
                       ELSE /\ m_glContext' = glOk
                            /\ native' = [native EXCEPT !.class = TRUE, !.window = TRUE,
                                                        !.dc = TRUE, !.glContext = glOk]
                            /\ ctxObs' = CreateObs(glOk, {"window", "dc", "glContext"})
    /\ UNCHANGED <<queryObs, initObs, osVars, inputVars, m_display, m_visualInfo, m_colormap, m_fullscreen,
                   m_shouldClose, m_visible, m_inputSystem>>

\* The members and native objects after WindowsContext::DestroyWindow: the
\* graphics context, the device context and the window are released when
\* their handle is non-null, and the handle is reset; UnregisterClass runs
\* in every case (on a class that is not registered it fails without effect).
WinDestroyWindowEffect ==
    /\ m_glContext' = (m_glContext /\ ReleasedHandle(m_glContext))
    /\ m_hdc' = (m_hdc /\ ReleasedHandle(m_hdc))
    /\ m_window' = (m_window /\ ReleasedHandle(m_window))
    /\ native' = [native EXCEPT !.glContext = FALSE, !.dc = FALSE, !.window = FALSE,
                                !.class = FALSE]

\* DestroyWindow made a native call on a released or null handle.
WinDestroyWindowMisuse ==
    \/ BadUse(m_glContext, native.glContext, TRUE)
    \/ BadUse(m_hdc, native.dc, m_window /\ native.window)
    \/ BadUse(m_window, native.window, TRUE)

\* WindowsContext::DestroyWindow.
WinDestroyWindow ==
    /\ platform = "Windows"
    /\ WinDestroyWindowEffect
    /\ ctxObs' = [CallObs("DestroyWindow", TRUE, FALSE)
                    EXCEPT !.misuse = WinDestroyWindowMisuse]
    /\ UNCHANGED <<queryObs, initObs, osVars, inputVars, m_display, m_visualInfo, m_colormap, m_fullscreen,
                   m_shouldClose, m_visible, m_size, m_inputSystem>>

\* WindowsContext::SetWindowFullscreen: nothing when the flag already has
\* the value.  Entering fullscreen stores the window position in
\* (m_width, m_height) (pos: what that position is as a stored size, (0, 0)
\* without a window); both directions restyle and move the window through
\* m_hwnd, which is not tested for null.
WinSetWindowFullscreen(fullscreen, pos) ==
    /\ platform = "Windows"
    /\ IF FullscreenSame(m_fullscreen, fullscreen)
       THEN /\ UNCHANGED <<m_fullscreen, m_size>>
            /\ ctxObs' = [CallObs("SetWindowFullscreen", TRUE, TRUE) EXCEPT !.arg = fullscreen]
       ELSE /\ m_fullscreen' = fullscreen
            /\ m_size' = IF fullscreen THEN (IF m_window THEN pos ELSE 0) ELSE m_size
            /\ ctxObs' = [CallObs("SetWindowFullscreen", TRUE, TRUE)
                            EXCEPT !.arg = fullscreen,
                                   !.requests = 2,
                                   !.misuse = ~m_window \/ ~native.window]
    /\ UNCHANGED <<queryObs, initObs, osVars, inputVars, m_display, m_window, m_visualInfo, m_colormap, m_glContext,
                   m_shouldClose, m_visible, m_inputSystem, m_hdc, native>>

\* Window messages the Context handles or passes to DefWindowProc (WM_PAINT),
\* and the thread message WM_QUIT.
WinContextEvents == {"WM_CLOSE", "WM_SIZE", "WM_SHOWWINDOW_TRUE", "WM_SHOWWINDOW_FALSE",
                     "WM_QUIT", "WM_PAINT"}

WinKeyEvents == {"WM_KEYDOWN", "WM_KEYUP"}

WinEvents == WinContextEvents \union WinKeyEvents

\* Key messages carry VK_ESCAPE.
DrainedVKey == 27

\* DispatchMessage hands the message to WindowProc: every message but the
\* thread message WM_QUIT, which has no window.
WinDispatched(type) == type # "WM_QUIT"

\* WindowsContext::ProcessMessages for one message: WM_QUIT raises
\* m_shouldClose in the loop itself; a dispatched message reaches
\* WindowProc, which calls ProcessWindowMessage of the registered Input
\* instance and then runs the Context's own switch.
WinHandleMessage(type, size) ==
    /\ IF WinDispatched(type) /\ RegisteredLive /\ type \in WinKeyEvents
       THEN /\ keys' = UpdateKeyState(keys, previousKeys, VirtualKeyToKeyCode(DrainedVKey),
                                      type = "WM_KEYDOWN")
            /\ keyObs' = KeyObsEdge(VirtualKeyToKeyCode(DrainedVKey), type = "WM_KEYDOWN")
            /\ lastMain' = "event"
       ELSE UNCHANGED <<keys, keyObs, lastMain>>
    /\ osObs' = [osObs EXCEPT !.ub = @ \/ (WinDispatched(type) /\ m_inputSystem # 0
                                             /\ ~RegisteredLive)]
    /\ m_shouldClose' = IF type \in {"WM_CLOSE", "WM_QUIT"} THEN TRUE ELSE m_shouldClose
    /\ m_size' = IF type = "WM_SIZE" THEN size ELSE m_size
    /\ m_visible' = IF type = "WM_SHOWWINDOW_TRUE" THEN TRUE
                    ELSE IF type = "WM_SHOWWINDOW_FALSE" THEN FALSE ELSE m_visible

\* Who processes one drained message, in order.
WinMessageOrder(type) ==
    IF WinDispatched(type) THEN HandleEventOrder(m_inputSystem # 0) ELSE <<"context">>

\* WindowsContext::PollEvents with one pending message: a message of the
\* window, or WM_QUIT.
WinPollEvents(type, size) ==
    /\ platform = "Windows"
    /\ m_window \/ type = "WM_QUIT"
    /\ mainPc = "idle" /\ mutexOwner = "free"
    /\ WinHandleMessage(type, size)
    /\ ctxObs' = DrainObs("PollEvents", PollResult(m_shouldClose'), type, WinMessageOrder(type))
    /\ UNCHANGED <<queryObs, initObs, m_context, m_osInitialized, m_input, inputsMade, platform, m_hwnd, mutexOwner,
                   previousKeys, buttons, previousButtons, mouseVars, lifeVars, btnObs, sample,
                   padVars, padObsVars, m_display, m_window, m_visualInfo, m_colormap,
                   m_glContext, m_fullscreen, m_inputSystem, m_hdc, native>>

\* WindowsContext::WaitEvents: WaitMessage, then the same loop.
WinWaitEvents(type, size) ==
    /\ platform = "Windows"
    /\ m_window \/ type = "WM_QUIT"
    /\ mainPc = "idle" /\ mutexOwner = "free"
    /\ WinHandleMessage(type, size)
    /\ ctxObs' = DrainObs("WaitEvents", TRUE, type, WinMessageOrder(type))
    /\ UNCHANGED <<queryObs, initObs, m_context, m_osInitialized, m_input, inputsMade, platform, m_hwnd, mutexOwner,
                   previousKeys, buttons, previousButtons, mouseVars, lifeVars, btnObs, sample,
                   padVars, padObsVars, m_display, m_window, m_visualInfo, m_colormap,
                   m_glContext, m_fullscreen, m_inputSystem, m_hdc, native>>

(* ---- the OS facade (LinuxOS / WindowsOS) ---- *)

\* Input instances the facade constructs in one run of the model.
MaxInstances == 2

\* The Input members after the constructor of a new instance; the facade
\* holds at most one instance, which these variables describe.
InputConstructed ==
    /\ m_initialized' = FALSE
    /\ keys' = [k \in Keys |-> Released]
    /\ previousKeys' = [k \in Keys |-> Released]
    /\ buttons' = [b \in Buttons |-> Released]
    /\ previousButtons' = [b \in Buttons |-> Released]
    /\ mouse' = [x |-> 0, y |-> 0, deltaX |-> 0, deltaY |-> 0, lastX |-> 0, lastY |-> 0]
    /\ m_hwnd' = FALSE
    /\ m_keyboardDev' = FALSE
    /\ m_mouseDev' = FALSE
    /\ m_shouldStop' = FALSE
    /\ inputThread' = "none"
    /\ mainPc' = "idle"
    /\ pads' = [i \in Pads |-> NoPad]
    /\ m_connectedGamepadCount' = 0
    /\ inputPc' = LoopHead
    /\ sample' = NoSample
    /\ initObs' = NoInitObs
    /\ ResetObs

InputMissingAlways(input) == TRUE

\* The test of GetInput and InitializeInput: the facade holds no Input
\* instance yet.
InputMissing(input) == input = 0

\* The history of GetInput() results after one more call returned r
\* (0: nullptr).
GotInput(r) ==
    [osObs EXCEPT !.asked = TRUE,
                  !.first = IF @ = 0 THEN r ELSE @,
                  !.last = r,
                  !.n = IF r # 0 /\ @ < 2 THEN @ + 1 ELSE @,
                  !.same = @ /\ (r = 0 \/ osObs.first = 0 \/ osObs.first = r)]

InitResultAlways(initialized, context) == context

\* The value Init() returns: false when the facade is initialized already
\* or has no Context.
InitResult(initialized, context) ==
    IF initialized THEN FALSE
    ELSE IF ~context THEN FALSE
    ELSE TRUE

\* LinuxOS::Init / WindowsOS::Init: m_initialized is set when the call
\* succeeds, and nothing else is written.
OSInit ==
    /\ mainPc = "idle"
    /\ m_osInitialized' = (m_osInitialized \/ InitResult(m_osInitialized, m_context))
    /\ osObs' = [osObs EXCEPT !.inited = TRUE]
    /\ UNCHANGED <<m_context, m_input, inputsMade, inputVars, ctxVars, initObs, queryObs>>

\* DestroyWindow of the platform's Context, as a callee.
ContextDestroyWindow ==
    /\ IF platform = "Linux"
       THEN /\ DestroyWindowEffect
            /\ ctxObs' = [CallObs("DestroyWindow", TRUE, FALSE)
                            EXCEPT !.misuse = DestroyWindowMisuse]
            /\ UNCHANGED m_hdc
       ELSE /\ WinDestroyWindowEffect
            /\ ctxObs' = [CallObs("DestroyWindow", TRUE, FALSE)
                            EXCEPT !.misuse = WinDestroyWindowMisuse]
            /\ UNCHANGED <<m_visualInfo, m_colormap>>
    /\ UNCHANGED <<m_display, m_fullscreen, m_shouldClose, m_visible, m_size, m_inputSystem>>

\* LinuxOS::Shutdown / WindowsOS::Shutdown seen from its caller: the Input
\* instance the facade holds when a Shutdown() called on a facade with the
\* given members returns.  Without a successful Init() the body is skipped.
ShutdownInput(initialized, input) == IF initialized THEN 0 ELSE input

\* The input thread when that Shutdown() returns: joined by
\* Input::Shutdown() when the body runs on an existing instance.
ShutdownThread(initialized, input, thread) ==
    IF initialized /\ input # 0 THEN "none" ELSE thread

\* LinuxOS::Shutdown / WindowsOS::Shutdown: nothing unless Init() has
\* succeeded.  Otherwise the Input instance, if any, is shut down (its
\* threads joined) and destroyed, and the window is destroyed.  The
\* Context's m_inputSystem is not touched.
OSShutdown ==
    /\ mainPc = "idle" /\ mutexOwner = "free"
    /\ IF m_osInitialized
       THEN /\ IF m_input # 0
               THEN InputConstructed
               ELSE UNCHANGED <<queryObs, initObs, m_hwnd, keyVars, mouse, lifeVars, obsVars, pads,
                                m_connectedGamepadCount, inputPc, padObsVars>>
            /\ m_input' = ShutdownInput(m_osInitialized, m_input)
            /\ ContextDestroyWindow
            /\ m_osInitialized' = FALSE
            /\ osObs' = [osObs EXCEPT !.first = 0, !.last = 0, !.same = TRUE, !.n = 0,
                                      !.inited = FALSE]
            /\ UNCHANGED <<queryObs, m_context, inputsMade, platform, mutexOwner, osCursor,
                           padPresent>>
       ELSE /\ osObs' = [osObs EXCEPT !.inited = FALSE]
            /\ UNCHANGED <<m_context, m_osInitialized, m_input, inputsMade, inputVars,
                           ctxVars, initObs, queryObs>>

\* LinuxOS::GetInput / WindowsOS::GetInput with InitializeInput.  The
\* existing instance is returned; otherwise one is constructed, given the
\* Context's window when there is one, initialized and registered on the
\* Context.  When Initialize fails (threadOk false: the thread cannot be
\* created) the new instance is destroyed again and nullptr is returned.
OSGetInput(kbdOk, mouseOk, threadOk, n, connOk) ==
    /\ mainPc = "idle" /\ mutexOwner = "free"
    /\ IF ~InputMissing(m_input)
       THEN /\ osObs' = GotInput(m_input)
            /\ UNCHANGED <<queryObs, initObs, m_context, m_osInitialized, m_input, inputsMade, inputVars, ctxVars>>
       ELSE /\ m_context
            /\ inputsMade < MaxInstances
            /\ inputsMade' = inputsMade + 1
            /\ IF threadOk
               THEN /\ IF platform = "Linux"
                       THEN LinuxInitializeEffect(kbdOk, mouseOk, threadOk, n, connOk)
                       ELSE WindowsInitializeEffect(kbdOk, mouseOk, threadOk)
                    /\ m_hwnd' = (m_window /\ (platform = "Windows" \/ m_display))
                    /\ m_input' = inputsMade + 1
                    /\ m_inputSystem' = inputsMade + 1
                    /\ osObs' = GotInput(inputsMade + 1)
                    /\ UNCHANGED <<keyVars, mouseVars, sample>>
               ELSE /\ m_input' = 0
                    /\ osObs' = GotInput(0)
                    /\ UNCHANGED <<queryObs, initObs, m_inputSystem, m_hwnd, keyVars, mouseVars, lifeVars,
                                   obsVars, padVars, padObsVars>>
            /\ UNCHANGED <<queryObs, m_context, m_osInitialized, platform, mutexOwner, m_display,
                           m_window, m_visualInfo, m_colormap, m_glContext, m_fullscreen,
                           m_shouldClose, m_visible, m_size, ctxObs, m_hdc, native>>

(***************************************************************************)
(* 6. Specifications                                                       *)
(***************************************************************************)

\* The state after construction of the Input object: tables zeroed, no
\* thread, no device.
InitInputState ==
    /\ platform \in Platforms
    /\ m_initialized = FALSE
    /\ keys = [k \in Keys |-> Released]
    /\ previousKeys = [k \in Keys |-> Released]
    /\ buttons = [b \in Buttons |-> Released]
    /\ previousButtons = [b \in Buttons |-> Released]
    /\ mouse = [x |-> 0, y |-> 0, deltaX |-> 0, deltaY |-> 0, lastX |-> 0, lastY |-> 0]
    /\ m_hwnd = FALSE
    /\ osCursor = <<0, 0>>
    /\ m_keyboardDev = FALSE
    /\ m_mouseDev = FALSE
    /\ m_shouldStop = FALSE
    /\ inputThread = "none"
    /\ mainPc = "idle"
    /\ padPresent = [i \in Pads |-> FALSE]
    /\ pads = [i \in Pads |-> NoPad]
    /\ m_connectedGamepadCount = 0
    /\ mutexOwner = "free"
    /\ inputPc = LoopHead
    /\ padObs = [i \in Pads |-> -1]
    /\ unplugObs = [i \in Pads |-> -1]
    /\ keyObs = [k \in Keys |-> NoObs]
    /\ btnObs = [b \in Buttons |-> NoObs]
    /\ lastMain = "other"
    /\ sample = NoSample
    /\ initObs = NoInitObs
    /\ queryObs = NoQueryObs

\* No GetInput() has returned since the last Shutdown(); no destroyed
\* Input instance has been used; Init() has not been called since the
\* construction or the last Shutdown().
NoOsObs == [first |-> 0, last |-> 0, same |-> TRUE, ub |-> FALSE, asked |-> FALSE, n |-> 0,
            inited |-> FALSE]

\* The facade after its constructor: a Context, no Input instance.
InitOS ==
    /\ m_context = TRUE
    /\ m_osInitialized = FALSE
    /\ m_input = 0
    /\ inputsMade = 0
    /\ osObs = NoOsObs

\* The Input specifications run with a Context whose display is open.
InitInput == InitInputState /\ InitContext /\ InitOS /\ m_display = TRUE

(* ---- keyboard and mouse buttons: no gamepad attached, pointer at rest ---- *)

NextKeys ==
    \/ \E kbdOk, mouseOk, threadOk \in BOOLEAN :
          LinuxInitialize(kbdOk, mouseOk, threadOk, 0, {})
    \/ \E kbdOk, mouseOk, threadOk \in BOOLEAN :
          WindowsInitialize(kbdOk, mouseOk, threadOk)
    \/ ShutdownBegin
    \/ ShutdownJoinInput
    \/ InputThreadExit
    \/ \E c \in LinuxCodes, pressed \in BOOLEAN : X11KeyEvent(c, pressed)
    \/ \E b \in LinuxButtonCodes, pressed \in BOOLEAN :
          X11ButtonEvent(b, pressed, mouse.x, mouse.y)
    \/ \E v \in WinVKeys, pressed \in BOOLEAN : WinKeyMessage(v, pressed)
    \/ \E b \in Buttons, pressed \in BOOLEAN : WinButtonMessage(b, pressed)
    \/ \E c \in LinuxCodes, value \in 0..2 : LinuxKeyboardEvent(c, value)
    \/ \E b \in LinuxButtonCodes, value \in 0..1 : LinuxMouseButtonEvent(b, value)
    \/ \E level \in [Keys -> BOOLEAN] : WinPollKeyboard(level)
    \/ \E level \in [Buttons -> BOOLEAN] : WinPollMouse(level)
    \/ LinuxUpdate
    \/ \E cursorOk \in BOOLEAN : WindowsUpdate(cursorOk)

SpecKeys == InitInput /\ [][NextKeys]_vars

(* ---- properties of the key / mouse-button automaton ---- *)

\* C1: a key (mouse button) at rest, with current state and snapshot both
\* Released, that receives a down-edge reads Pressed after the next Update()
\* and Held after the one after it, when no further edge arrives in between.
C1_PressedThenHeld ==
    /\ \A k \in Keys :
          (keyObs[k].n >= 1 /\ ~keyObs[k].rep) =>
             GetKeyState(k) = (IF keyObs[k].n = 1 THEN Pressed ELSE Held)
    /\ \A b \in Buttons :
          (btnObs[b].n >= 1 /\ ~btnObs[b].rep) =>
             GetMouseButtonState(b) = (IF btnObs[b].n = 1 THEN Pressed ELSE Held)

\* A key has gone through down-edge, Update(), Update() and reads Held while
\* a mouse button has gone through down-edge, Update() and reads Pressed.
C1_Witness ==
    \E k \in Keys, b \in Buttons :
        /\ keyObs[k].n = 2 /\ ~keyObs[k].rep /\ GetKeyState(k) = Held
        /\ btnObs[b].n = 1 /\ ~btnObs[b].rep /\ GetMouseButtonState(b) = Pressed

\* C2: a down-edge followed by an up-edge with no Update() in between leaves
\* the key (mouse button) Released (immediate-release rule).
C2_TapReadsReleased ==
    /\ \A k \in Keys : keyObs[k].tap = 2 => GetKeyState(k) = Released
    /\ \A b \in Buttons : btnObs[b].tap = 2 => GetMouseButtonState(b) = Released

\* C3: after a down-edge on a key at rest and no up-edge since, a query made
\* after the first following Update() reads Pressed and a query made after
\* every later Update() reads Held, whatever further down-edges the main
\* thread and the input thread deliver.
C3_PressedOnceUnderRepeats ==
    lastMain = "Update" =>
        \A k \in Keys :
            keyObs[k].n >= 1 =>
                GetKeyState(k) = (IF keyObs[k].n = 1 THEN Pressed ELSE Held)

(* ---- pointer position and delta: no key or button edges ---- *)

UnitSteps == {<<1, 0>>, <<-1, 0>>, <<0, 1>>, <<0, -1>>}

NextMouse ==
    \/ \E mouseOk, threadOk \in BOOLEAN : LinuxInitialize(FALSE, mouseOk, threadOk, 0, {})
    \/ \E mouseOk, threadOk \in BOOLEAN : WindowsInitialize(FALSE, mouseOk, threadOk)
    \/ ShutdownBegin
    \/ ShutdownJoinInput
    \/ InputThreadExit
    \/ SetWindowHandle
    \/ \E px, py \in Coords : X11Motion(px, py)
    \/ \E d \in UnitSteps :
          /\ mouse.x + d[1] \in Coords
          /\ mouse.y + d[2] \in Coords
          /\ LinuxMouseRel(d[1], d[2])
    \/ \E px, py \in Coords : WinMouseMove(px, py)
    \/ \E px, py \in Coords : WinCursorMoves(px, py)
    \/ \E px, py \in Coords : SetMousePosition(px, py)
    \/ LinuxUpdate
    \/ \E cursorOk \in BOOLEAN : WindowsUpdate(cursorOk)

SpecMouse == InitInput /\ [][NextMouse]_vars

\* C7: once two Update() calls have run, GetMouseDelta() is the pointer
\* position at the last Update() minus the position at the Update() before.
C7_DeltaIsPositionDifference ==
    sample.n >= 2 =>
        GetMouseDelta = <<sample.cur[1] - sample.prev[1], sample.cur[2] - sample.prev[2]>>

(* ---- gamepads: connection, threads, shutdown ---- *)

\* The js_event records a gamepad delivers here: button 0 up and down, and
\* a button number outside the table.
PadButtonEvents == {<<0, 0>>, <<0, 1>>, <<GamepadButtonCount, 1>>}

NextPads ==
    \/ \E threadOk \in BOOLEAN, n \in 0..(MaxPad + 1) :
          \E connOk \in SUBSET (0..(n - 1)) :
             LinuxInitialize(FALSE, FALSE, threadOk, n, connOk)
    \/ \E threadOk \in BOOLEAN : WindowsInitialize(FALSE, FALSE, threadOk)
    \/ ShutdownBegin
    \/ ShutdownJoinInput
    \/ DisconnectGamepadJoin
    \/ InputThreadExit
    \/ \E i \in Pads, e \in PadButtonEvents : PadThreadRead(i, "button", e[1], e[2])
    \/ \E i \in Pads : PadThreadStore(i)
    \/ \E i \in Pads : PadThreadIdle(i)
    \/ \E i \in Pads : PadThreadExit(i)
    \/ WinCheckBegin
    \/ WinCheckSlot
    \/ \E changed, down \in BOOLEAN : WinPollSlot(changed, down, 0, 0)
    \/ \E i \in Pads : Unplug(i)
    \/ \E i \in Pads : PlugIn(i)
    \/ \E q \in PadQueries : PadQueryBegin(q)
    \/ PadQueryEnd

SpecPads == InitInput /\ [][NextPads]_vars

\* Scheduling: a runnable thread eventually takes its next step, and a join
\* on a finished thread eventually returns.
FairPads ==
    /\ WF_vars(InputThreadExit)
    /\ WF_vars(WinCheckSlot)
    /\ WF_vars(\E changed, down \in BOOLEAN : WinPollSlot(changed, down, 0, 0))
    /\ WF_vars(ShutdownJoinInput)
    /\ WF_vars(DisconnectGamepadJoin)
    /\ \A i \in Pads : WF_vars(PadThreadStore(i))
    /\ \A i \in Pads : WF_vars(PadThreadExit(i))

FairSpecPads == SpecPads /\ FairPads

\* The thread is inside a read or write of the gamepad tables or of the
\* connected count.
MainInGamepadAccess == mainPc \in PadQueries

InputThreadInGamepadAccess == inputThread = "running" /\ inputPc.at # "loop"

PadThreadInGamepadAccess(i) == pads[i].thread = "running" /\ pads[i].ev # NoEvent

\* C4: every read and write of the shared Input state happens while the
\* accessing thread holds the state mutex; in particular no gamepad query
\* runs while a background thread is writing the gamepad tables.
C4_SharedStateUnderMutex ==
    /\ MainInGamepadAccess => mutexOwner = "main"
    /\ InputThreadInGamepadAccess => mutexOwner = "input"
    /\ \A i \in Pads : PadThreadInGamepadAccess(i) => mutexOwner = "pad"
    /\ ~(MainInGamepadAccess /\ InputThreadInGamepadAccess)
    /\ \A i \in Pads : ~(MainInGamepadAccess /\ PadThreadInGamepadAccess(i))

\* C5: once the device behind a connected slot has been removed and two
\* polling intervals have passed without Shutdown(), IsGamepadConnected is
\* false for the slot and, between polling cycles, the connected count is
\* the number of slots still connected.
C5_DisconnectDetected ==
    \A i \in Pads :
        unplugObs[i] >= 2 =>
            /\ ~IsGamepadConnected(i)
            /\ inputPc.at = "loop" =>
                  GetConnectedGamepadCount = Cardinality({j \in Pads : IsGamepadConnected(j)})

\* Shutdown() is between raising the stop flag and returning.
InShutdown == mainPc \in {"join_input", "join_pad"}

NoThreadRunning ==
    /\ inputThread # "running"
    /\ \A i \in Pads : pads[i].thread # "running"

\* C6: Shutdown() on an initialized instance raises the stop flag, every
\* background thread exits, Shutdown() returns, and when it has returned no
\* background thread is left running to write Input state.
C6_ShutdownJoinsAllThreads ==
    /\ [](InShutdown => m_shouldStop)
    /\ [](mainPc = "join_pad" => \E i \in Pads : pads[i].connected /\ pads[i].shouldStop)
    /\ []((mainPc = "idle" /\ ~m_initialized) => NoThreadRunning)
    /\ (InShutdown ~> (mainPc = "idle" /\ ~m_initialized /\ NoThreadRunning))

\* Shutdown() has returned on an instance that had an input thread and two
\* gamepad threads.
C6_Witness ==
    /\ mainPc = "idle" /\ ~m_initialized /\ m_shouldStop
    /\ inputThread = "none"
    /\ \A i \in Pads : ~pads[i].connected /\ pads[i].shouldStop /\ pads[i].thread = "none"

(* ---- gamepad buttons across Update() cycles ---- *)

NextPadButtons ==
    \/ \E n \in 0..(MaxPad + 1) : LinuxInitialize(FALSE, FALSE, TRUE, n, 0..(n - 1))
    \/ WindowsInitialize(FALSE, FALSE, TRUE)
    \/ \E i \in Pads, e \in PadButtonEvents : PadThreadRead(i, "button", e[1], e[2])
    \/ \E i \in Pads : PadThreadStore(i)
    \/ WinCheckBegin
    \/ WinCheckSlot
    \/ \E changed, down \in BOOLEAN : WinPollSlot(changed, down, 0, 0)
    \/ \E i \in Pads : PlugIn(i)
    \/ LinuxUpdate
    \/ WindowsUpdate(TRUE)

SpecPadButtons == InitInput /\ [][NextPadButtons]_vars

\* C9: a gamepad button follows the Released / Pressed / Held automaton:
\* after its down transition on a connected gamepad it reads Pressed after
\* the first following Update(), Held after every later one, and Released
\* once it is up.
C9_GamepadButtonAutomaton ==
    \A i \in Pads :
        pads[i].connected =>
            /\ padObs[i] = 1 => GetGamepadButtonState(i, 0) = Pressed
            /\ padObs[i] >= 2 => GetGamepadButtonState(i, 0) = Held
            /\ ~pads[i].buttons[0] => GetGamepadButtonState(i, 0) = Released

(* ---- gamepad axes and deadzone: one gamepad attached ---- *)

\* Deadzones passed to SetGamepadDeadzone: negative, zero, the default, one
\* half, just below one, and one.
Deadzones == {-1, 0, DefaultDeadzone, AxisScale \div 2, AxisScale - 1, AxisScale}

NextAxis ==
    \/ \E n \in 0..1 : LinuxInitialize(FALSE, FALSE, TRUE, n, 0..(n - 1))
    \/ WindowsInitialize(FALSE, FALSE, TRUE)
    \/ \E v \in RawAxisValues, a \in {0, GamepadAxisCount} : PadThreadRead(0, "axis", a, v)
    \/ PadThreadStore(0)
    \/ WinCheckBegin
    \/ WinCheckSlot
    \/ \E v \in RawAxisValues : WinPollSlot(TRUE, FALSE, v, 0)
    \/ PlugIn(0)
    \/ \E i \in Pads, d \in Deadzones : SetGamepadDeadzone(i, d)

SpecAxis == InitInput /\ [][NextAxis]_vars

\* C8: for a stored axis sample v in [-1, 1] and a deadzone 0 < d < 1,
\* GetGamepadAxis returns exactly 0 when |v| < d and otherwise
\* sign(v) * (|v| - d) / (1 - d): the result has the sign of v, magnitude at
\* most 1, and is 0 at |v| = d.
C8_DeadzoneRescale ==
    \A i \in Pads :
        LET v == pads[i].axes[0]
            d == pads[i].deadzone
            r == GetGamepadAxis(i, 0)
            sgn == IF v < 0 THEN -1 ELSE 1
        IN (pads[i].connected /\ 0 < d /\ d < AxisScale /\ AbsInt(v) <= AxisScale) =>
              /\ r.den > 0
              /\ AbsInt(v) < d => r.num = 0
              /\ AbsInt(v) >= d =>
                    r.num * (AxisScale - d) = sgn * (AbsInt(v) - d) * r.den
              /\ r.num * v >= 0
              /\ AbsInt(r.num) <= r.den
              /\ AbsInt(v) = d => r.num = 0

\* A connected gamepad holds the sample -1 under the default deadzone and a
\* query returns -1.
C8_Witness ==
    \E i \in Pads :
        /\ pads[i].connected
        /\ pads[i].deadzone = DefaultDeadzone
        /\ pads[i].axes[0] = 0 - AxisScale
        /\ GetGamepadAxis(i, 0) = Frac(DefaultDeadzone - AxisScale, AxisScale - DefaultDeadzone)

\* The raw sample normalized with no deadzone, on the grid of the stored
\* samples: value / 32767 on Linux, the XInput quotient on Windows.
NormalizedRaw(value) ==
    IF platform = "Linux" THEN AxisSample(value) ELSE NormalizeXInputStick(value, 0)

\* C19: deadzone is applied only when an axis is queried.  The stored
\* sample of a connected gamepad is the normalized raw sample the polling
\* path last delivered, whatever deadzones exist or were set since, and
\* GetGamepadAxis is the current deadzone applied to that normalized raw
\* sample.
C19_DeadzoneOnlyAtQuery ==
    \A i \in Pads :
        pads[i].connected =>
            /\ pads[i].axes[0] = NormalizedRaw(pads[i].raw[0])
            /\ GetGamepadAxis(i, 0) =
                  ApplyDeadzone(NormalizedRaw(pads[i].raw[0]), pads[i].deadzone)

(* ---- the Context ---- *)

InitCtx == InitInputState /\ platform = "Linux" /\ InitContext /\ InitOS

NextCtx ==
    \/ \E size \in Sizes, visualOk, windowOk, glOk \in BOOLEAN :
          CreateWindow(size, visualOk, windowOk, glOk)
    \/ \E glOk \in BOOLEAN : InitializeGraphicsContext(glOk)
    \/ DestroyWindow
    \/ \E f \in BOOLEAN : SetWindowFullscreen(f)
    \/ \E c \in BOOLEAN : SetShouldClose(c)
    \/ \E show \in BOOLEAN : ShowHideWindow(show)
    \/ \E type \in ContextEvents, size \in Sizes : PollEvents(type, size)

SpecCtx == InitCtx /\ [][NextCtx]_vars

\* C10: without a display connection CreateWindow returns false and leaves
\* ShouldClose() and IsWindowFullscreen() as they were (false unless a setter
\* was called), and the native window handle and the graphics context handle
\* are null.
C10_NoDisplayCreateWindowFails ==
    ~m_display =>
        /\ GetNativeWindowHandle = "null"
        /\ GetGraphicsContextHandle = "null"
        /\ ctxObs.last = "CreateWindow" =>
              /\ ctxObs.ret = FALSE
              /\ ShouldClose = ctxObs.shouldClose
              /\ IsWindowFullscreen = ctxObs.fullscreen
        /\ ~ctxObs.set => (ShouldClose = FALSE /\ IsWindowFullscreen = FALSE)

\* CreateWindow has just failed on a Context without display whose flags
\* were never set.
C10_Witness ==
    /\ ~m_display
    /\ ctxObs.last = "CreateWindow" /\ ctxObs.ret = FALSE /\ ~ctxObs.set
    /\ ShouldClose = FALSE /\ IsWindowFullscreen = FALSE
    /\ GetNativeWindowHandle = "null" /\ GetGraphicsContextHandle = "null"

(* ---- both Context implementations ---- *)

\* WindowsContext has no display connection member.
InitContexts == InitInputState /\ InitContext /\ InitOS /\ (platform = "Windows" => ~m_display)

\* The stored sizes a window position can yield on entering fullscreen.
Positions == {0} \union Sizes

NextContexts ==
    \/ \E size \in Sizes, visualOk, windowOk, glOk \in BOOLEAN :
          CreateWindow(size, visualOk, windowOk, glOk)
    \/ \E glOk \in BOOLEAN : InitializeGraphicsContext(glOk)
    \/ DestroyWindow
    \/ \E f \in BOOLEAN : SetWindowFullscreen(f)
    \/ \E type \in ContextEvents, size \in Sizes : PollEvents(type, size)
    \/ \E type \in ContextEvents, size \in Sizes : WaitEvents(type, size)
    \/ \E size \in Sizes, classOk, windowOk, dcOk, pixelOk, glOk \in BOOLEAN :
          WinCreateWindow(size, classOk, windowOk, dcOk, pixelOk, glOk)
    \/ \E pixelOk, glOk \in BOOLEAN : WinInitializeGraphicsContext(pixelOk, glOk)
    \/ WinDestroyWindow
    \/ \E f \in BOOLEAN, pos \in Positions : WinSetWindowFullscreen(f, pos)
    \/ \E type \in WinContextEvents, size \in Sizes : WinPollEvents(type, size)
    \/ \E type \in WinContextEvents, size \in Sizes : WinWaitEvents(type, size)
    \/ \E c \in BOOLEAN : SetShouldClose(c)
    \/ \E show \in BOOLEAN : ShowHideWindow(show)

SpecContexts == InitContexts /\ [][NextContexts]_vars

\* C11: when CreateWindow, called on a Context without window or graphics
\* context, returns false, the Context is as before the call: no window
\* handle and no graphics-context handle is observable and the stored size
\* is unchanged.
C11_FailedCreateLeavesPriorState ==
    (/\ ctxObs.last = "CreateWindow"
     /\ ~ctxObs.ret
     /\ ~ctxObs.pre.window
     /\ ~ctxObs.pre.glContext) =>
        /\ GetNativeWindowHandle = "null"
        /\ GetGraphicsContextHandle = "null"
        /\ m_size = ctxObs.pre.size


\* C12: DestroyWindow, in whatever state the Context is, makes no native
\* call on a null or already-released handle and leaves no handle behind;
\* a second DestroyWindow directly after the first leaves the Context as the
\* first left it (nothing is released a second time).
C12_DestroyWindowIdempotentSafe ==
    ctxObs.last = "DestroyWindow" =>
        /\ ~ctxObs.misuse
        /\ GetNativeWindowHandle = "null"
        /\ GetGraphicsContextHandle = "null"
        /\ native = NoNative
        /\ ctxObs.prev = "DestroyWindow" => CtxState = ctxObs.pre

\* DestroyWindow called twice in a row on a Context that had been created.
C12_Witness ==
    /\ ctxObs.last = "DestroyWindow"
    /\ ctxObs.prev = "DestroyWindow"
    /\ ~ctxObs.misuse
    /\ CtxState = ctxObs.pre
    /\ m_size # 0

\* C13: SetWindowFullscreen(f) with IsWindowFullscreen() = f already is a
\* no-op: it issues no native request and leaves the stored geometry and
\* the fullscreen flag as they were.
C13_FullscreenNoOpWhenSame ==
    (ctxObs.last = "SetWindowFullscreen" /\ ctxObs.arg = ctxObs.pre.fullscreen) =>
        /\ ctxObs.requests = 0
        /\ ~ctxObs.misuse
        /\ CtxState = ctxObs.pre

\* SetWindowFullscreen(true) twice in a row on an existing window.
C13_Witness ==
    /\ ctxObs.last = "SetWindowFullscreen"
    /\ ctxObs.prev = "SetWindowFullscreen"
    /\ ctxObs.arg = TRUE
    /\ ctxObs.pre.fullscreen = TRUE
    /\ ctxObs.requests = 0
    /\ m_window
    /\ IsWindowFullscreen

\* C14: a processed close request sets shouldClose and leaves the window and
\* the graphics context in place; PollEvents returns !ShouldClose(), which
\* is true until the first close request (or SetShouldClose(true)) and false
\* from then on until SetShouldClose(false).
C14_CloseRequestOnlySetsFlag ==
    /\ (ctxObs.last \in {"PollEvents", "WaitEvents"} /\ ctxObs.arg \in CloseRequests) =>
          /\ ShouldClose
          /\ m_window = ctxObs.pre.window /\ native.window = ctxObs.pre.window
          /\ m_glContext = ctxObs.pre.glContext /\ native.glContext = ctxObs.pre.glContext
          /\ m_hdc = ctxObs.pre.hdc
    /\ ctxObs.last = "PollEvents" => ctxObs.ret = ~ShouldClose
    /\ ShouldClose = ctxObs.closeReq

\* PollEvents has returned false for a close request on a graphics-ready
\* window, which is still there.
C14_Witness ==
    /\ ctxObs.last = "PollEvents"
    /\ ctxObs.arg \in {"DeleteWindow", "WM_CLOSE"}
    /\ ctxObs.ret = FALSE
    /\ ~ctxObs.pre.shouldClose
    /\ m_window /\ m_glContext

(* ---- the facade with its Context and its Input instance ---- *)

InitFacade == InitInputState /\ InitContext /\ InitOS /\ (platform = "Windows" => ~m_display)

NextOS ==
    \/ OSInit
    \/ OSShutdown
    \/ \E threadOk \in BOOLEAN : OSGetInput(FALSE, FALSE, threadOk, 0, {})
    \/ \E windowOk \in BOOLEAN : CreateWindow(1, TRUE, windowOk, TRUE)
    \/ \E windowOk \in BOOLEAN : WinCreateWindow(1, TRUE, windowOk, TRUE, TRUE, TRUE)
    \/ \E type \in X11Events, size \in Sizes : PollEvents(type, size)
    \/ \E type \in X11Events, size \in Sizes : WaitEvents(type, size)
    \/ \E type \in WinEvents, size \in Sizes : WinPollEvents(type, size)
    \/ \E type \in WinEvents, size \in Sizes : WinWaitEvents(type, size)

SpecOS == InitFacade /\ [][NextOS]_vars

\* The last Context call drained one event while the facade's live Input
\* instance was registered.
DrainedWhileRegistered ==
    ctxObs.last \in {"PollEvents", "WaitEvents"} /\ ctxObs.reg = "live"

C16_OneContextLazySingleInput ==
    /\ m_context
    /\ ~osObs.asked => (inputsMade = 0 /\ m_input = 0 /\ m_inputSystem = 0)
    /\ osObs.same
    /\ osObs.last # 0 => osObs.last = m_input
    /\ osObs.first # 0 => (m_input = osObs.first /\ m_inputSystem = osObs.first)
    /\ m_input # 0 => m_inputSystem = m_input

C16_Witness ==
    /\ osObs.n = 2 /\ osObs.same
    /\ inputsMade = 2 /\ m_input = 2 /\ m_inputSystem = 2 /\ osObs.last = 2
    /\ m_initialized /\ ~m_osInitialized

(* ---- Initialize() with and without devices ---- *)

NextInit ==
    \/ \E kbdOk, mouseOk, threadOk \in BOOLEAN, n \in 0..(MaxPad + 1), connOk \in SUBSET Pads :
          LinuxInitialize(kbdOk, mouseOk, threadOk, n, connOk)
    \/ \E kbdOk, mouseOk, threadOk \in BOOLEAN :
          WindowsInitialize(kbdOk, mouseOk, threadOk)
    \/ \E i \in Pads : PlugIn(i)
    \/ \E c \in LinuxCodes, pressed \in BOOLEAN : X11KeyEvent(c, pressed)
    \/ \E b \in LinuxButtonCodes, pressed \in BOOLEAN :
          X11ButtonEvent(b, pressed, mouse.x, mouse.y)
    \/ \E v \in WinVKeys, pressed \in BOOLEAN : WinKeyMessage(v, pressed)
    \/ \E b \in Buttons, pressed \in BOOLEAN : WinButtonMessage(b, pressed)

SpecInit == InitInput /\ [][NextInit]_vars

OutOfRangeKeys == {MAX_KEYS, MAX_KEYS + 1, 65535}

UnnamedKeys == {0, 59} \union OutOfRangeKeys

\* Gamepad ids, button and axis indices past the tables (uint8_t arguments).
OutOfRangeIds == {MAX_GAMEPADS, 255}

OutOfRangeButtons == {GamepadButtonCount, 255}

OutOfRangeAxes == {GamepadAxisCount, 255}

\* Mouse-button codes past the table, which have no name entry.
UnnamedMouseButtons == {MAX_MOUSE_BUTTONS, 255}

\* The index arguments tried with a getter.
GetterIndexes(getter) ==
    CASE getter \in {"GetKeyState", "GetKeyName"} -> Keys \union UnnamedKeys
      [] getter \in {"GetMouseButtonState", "GetMouseButtonName"} ->
            Buttons \union UnnamedMouseButtons
      [] getter \in {"GetGamepadButtonState", "GetGamepadButtonName"} ->
            PadButtons \union OutOfRangeButtons
      [] getter = "GetGamepadAxis" -> PadAxes \union OutOfRangeAxes
      [] OTHER -> {0}

\* The gamepad ids tried with a getter that takes one.
GetterIds(getter) ==
    IF getter \in {"IsGamepadConnected", "GetGamepadState", "GetGamepadButtonState",
                   "GetGamepadAxis"}
    THEN Pads \union OutOfRangeIds
    ELSE {0}

NextGetters ==
    \/ \E n \in 0..(MaxPad + 1) : LinuxInitialize(FALSE, FALSE, TRUE, n, 0..(n - 1))
    \/ WindowsInitialize(FALSE, FALSE, TRUE)
    \/ \E i \in Pads : PlugIn(i)
    \/ \E c \in LinuxCodes, pressed \in BOOLEAN : X11KeyEvent(c, pressed)
    \/ \E v \in WinVKeys, pressed \in BOOLEAN : WinKeyMessage(v, pressed)
    \/ \E getter \in Getters :
          \E id \in GetterIds(getter), index \in GetterIndexes(getter) :
             GetterCall(getter, id, index)

SpecGetters == InitInput /\ [][NextGetters]_vars

\* C18: a getter given an out-of-range index or an unmapped code returns
\* its safe default and reads no entry outside the fixed arrays:
\* GetKeyState gives Released for an index >= 256; the gamepad queries give
\* Released / 0.0 / null / false for an id >= MAX_GAMEPADS or a button or
\* axis index >= Count; the name getters give "Unknown" for a code without
\* a table entry.
C18_OutOfRangeGettersDefault ==
    LET q == queryObs
    IN /\ \A rd \in q.reads : rd[2] < ArraySize(rd[1])
       /\ (q.getter = "GetKeyState" /\ q.index >= MAX_KEYS) => q.result = Released
       /\ (q.getter = "GetGamepadButtonState"
              /\ (q.id >= MAX_GAMEPADS \/ q.index >= GamepadButtonCount)) =>
             q.result = Released
       /\ (q.getter = "GetGamepadAxis"
              /\ (q.id >= MAX_GAMEPADS \/ q.index >= GamepadAxisCount)) =>
             q.result = Frac(0, AxisScale)
       /\ (q.getter = "GetGamepadState" /\ q.id >= MAX_GAMEPADS) => q.result = "null"
       /\ (q.getter = "IsGamepadConnected" /\ q.id >= MAX_GAMEPADS) => q.result = FALSE
       /\ (q.getter = "GetKeyName" /\ q.index \in UnnamedKeys) => q.result = "Unknown"
       /\ (q.getter = "GetMouseButtonName" /\ q.index \in UnnamedMouseButtons) =>
             q.result = "Unknown"
       /\ (q.getter = "GetGamepadButtonName" /\ q.index \in OutOfRangeButtons) =>
             q.result = "Unknown"

\* GetKeyState(256) has returned Released on an initialized instance whose
\* Escape key is down.
C18_Witness ==
    /\ queryObs.getter = "GetKeyState"
    /\ queryObs.index = MAX_KEYS
    /\ queryObs.result = Released
    /\ queryObs.reads = {}
    /\ m_initialized
    /\ keys[1] = Pressed

(* ---- the range of the stored axis samples ---- *)

\* Raw stick values: the ends of the signed 16-bit range, the edge of the
\* hardware deadzone, and values around zero.
Int16Values ==
    {0 - (JS_AXIS_MAX + 1), 0 - JS_AXIS_MAX, 0 - XINPUT_GAMEPAD_LEFT_THUMB_DEADZONE,
     -1, 0, 1, XINPUT_GAMEPAD_LEFT_THUMB_DEADZONE - 1,
     XINPUT_GAMEPAD_LEFT_THUMB_DEADZONE, JS_AXIS_MAX}

\* Raw XInput trigger bytes.
TriggerBytes == {0, 1, XINPUT_TRIGGER_MAX \div 2, XINPUT_TRIGGER_MAX}

NextRange ==
    \/ \E n \in 0..1 : LinuxInitialize(FALSE, FALSE, TRUE, n, 0..(n - 1))
    \/ WindowsInitialize(FALSE, FALSE, TRUE)
    \/ \E v \in Int16Values, a \in PadAxes : PadThreadRead(0, "axis", a, v)
    \/ PadThreadStore(0)
    \/ WinCheckBegin
    \/ WinCheckSlot
    \/ \E v \in Int16Values, t \in TriggerBytes : WinPollSlot(TRUE, FALSE, v, t)
    \/ PlugIn(0)

SpecRange == InitInput /\ [][NextRange]_vars

\* C20: for every raw device value the stored normalized sample is in
\* range: the stick sample of every gamepad lies in [-1, 1] and the trigger
\* sample in [0, 1].
C20_StoredSamplesInRange ==
    \A i \in Pads :
        LET stick == pads[i].exact[0]
            trigger == pads[i].exact[LeftTrigger]
        IN /\ stick.den > 0
           /\ AbsInt(stick.num) <= stick.den
           /\ trigger.den > 0
           /\ 0 <= trigger.num
           /\ trigger.num <= trigger.den

(* ---- the edge transition and the previous-frame snapshot ---- *)

\* Keyboard and mouse-button edges from every source on an instance whose
\* devices and input thread are up, and Update().
NextEdges ==
    \/ LinuxInitialize(TRUE, TRUE, TRUE, 0, {})
    \/ WindowsInitialize(TRUE, TRUE, TRUE)
    \/ \E c \in LinuxCodes, pressed \in BOOLEAN : X11KeyEvent(c, pressed)
    \/ \E b \in LinuxButtonCodes, pressed \in BOOLEAN :
          X11ButtonEvent(b, pressed, mouse.x, mouse.y)
    \/ \E v \in WinVKeys, pressed \in BOOLEAN : WinKeyMessage(v, pressed)
    \/ \E b \in Buttons, pressed \in BOOLEAN : WinButtonMessage(b, pressed)
    \/ \E c \in LinuxCodes, value \in 0..2 : LinuxKeyboardEvent(c, value)
    \/ \E b \in LinuxButtonCodes, value \in 0..1 : LinuxMouseButtonEvent(b, value)
    \/ \E level \in [Keys -> BOOLEAN] : WinPollKeyboard(level)
    \/ \E level \in [Buttons -> BOOLEAN] : WinPollMouse(level)
    \/ LinuxUpdate
    \/ WindowsUpdate(FALSE)

SpecEdges == InitInput /\ [][NextEdges]_vars

\* C21: UpdateKeyState and UpdateMouseButtonState compute the new state of
\* the entry from its previous-frame snapshot entry and the edge only: a
\* down-edge gives Pressed when the snapshot entry is Released and Held
\* otherwise, an up-edge gives Released when the snapshot entry is not
\* Released and leaves the entry as it is otherwise; no other key's or
\* button's entry changes.  Stated for every step in which one of the event
\* sources delivers the edge.
C21_EdgeFromSnapshotOnly ==
    [][
        LET After(cur, prev, pressed) ==
                CASE pressed /\ prev = Released -> Pressed
                  [] pressed /\ prev # Released -> Held
                  [] ~pressed /\ prev # Released -> Released
                  [] OTHER -> cur
            KeyEdgeStep(key, pressed) ==
                \/ \E c \in LinuxCodes :
                      LinuxScanCodeToKeyCode(c) = key /\ X11KeyEvent(c, pressed)
                \/ \E v \in WinVKeys :
                      VirtualKeyToKeyCode(v) = key /\ WinKeyMessage(v, pressed)
                \/ \E c \in LinuxCodes, value \in 0..2 :
                      /\ LinuxScanCodeToKeyCode(c) = key
                      /\ (value = 1) = pressed
                      /\ LinuxKeyboardEvent(c, value)
            ButtonEdgeStep(button, pressed) ==
                \/ \E b \in LinuxButtonCodes :
                      /\ LinuxButtonToMouseButton(b) = button
                      /\ X11ButtonEvent(b, pressed, mouse.x, mouse.y)
                \/ WinButtonMessage(button, pressed)
                \/ \E b \in LinuxButtonCodes, value \in 0..1 :
                      /\ LinuxButtonToMouseButton(b) = button
                      /\ (value = 1) = pressed
                      /\ LinuxMouseButtonEvent(b, value)
        IN /\ \A key \in Keys, pressed \in BOOLEAN :
                 KeyEdgeStep(key, pressed) =>
                    /\ keys' = [k \in Keys |->
                                  IF k = key
                                  THEN After(keys[k], previousKeys[k], pressed)
                                  ELSE keys[k]]
                    /\ UNCHANGED <<previousKeys, buttons, previousButtons>>
           /\ \A button \in Buttons, pressed \in BOOLEAN :
                 ButtonEdgeStep(button, pressed) =>
                    /\ buttons' = [b \in Buttons |->
                                     IF b = button
                                     THEN After(buttons[b], previousButtons[b], pressed)
                                     ELSE buttons[b]]
                    /\ UNCHANGED <<previousButtons, keys, previousKeys>>
           /\ \A level \in [Keys -> BOOLEAN] :
                 WinPollKeyboard(level) =>
                    /\ keys' = [k \in Keys |->
                                  IF k \in PolledKeys
                                  THEN After(keys[k], previousKeys[k], level[k])
                                  ELSE keys[k]]
                    /\ UNCHANGED <<previousKeys, buttons, previousButtons>>
    ]_vars

\* An up-edge has just set the Escape key Released over a Held snapshot
\* entry while the other key stays Held, and a down-edge has set the mouse
\* button Held over a Pressed snapshot entry.
C21_Witness ==
    /\ m_initialized
    /\ keys[1] = Released /\ previousKeys[1] = Held
    /\ keys[0] = Held /\ previousKeys[0] = Held
    /\ buttons[0] = Held /\ previousButtons[0] = Pressed

\* Edges on the Escape key and the left mouse button from every source,
\* Update(), Shutdown() and the state getters.
NextSnapshot ==
    \/ LinuxInitialize(TRUE, TRUE, TRUE, 0, {})
    \/ WindowsInitialize(TRUE, TRUE, TRUE)
    \/ \E pressed \in BOOLEAN : X11KeyEvent(DrainedKeycode, pressed)
    \/ \E pressed \in BOOLEAN : X11ButtonEvent(1, pressed, mouse.x, mouse.y)
    \/ \E pressed \in BOOLEAN : WinKeyMessage(DrainedVKey, pressed)
    \/ \E pressed \in BOOLEAN : WinButtonMessage(0, pressed)
    \/ \E value \in 0..2 : LinuxKeyboardEvent(DrainedKeycode, value)
    \/ \E value \in 0..1 : LinuxMouseButtonEvent(1, value)
    \/ \E level \in [Keys -> BOOLEAN] : WinPollKeyboard(level)
    \/ \E level \in [Buttons -> BOOLEAN] : WinPollMouse(level)
    \/ LinuxUpdate
    \/ WindowsUpdate(FALSE)
    \/ ShutdownBegin
    \/ ShutdownJoinInput
    \/ InputThreadExit
    \/ GetterCall("GetKeyState", 0, 1)
    \/ GetterCall("GetMouseButtonState", 0, 0)

SpecSnapshot == InitInput /\ [][NextSnapshot]_vars

C23_ShutdownResetsTables ==
    [][
        (~m_initialized /\ m_shouldStop /\ m_initialized') =>
            /\ \A k \in Keys : keys'[k] = Released /\ previousKeys'[k] = Released
            /\ \A b \in Buttons : buttons'[b] = Released /\ previousButtons'[b] = Released
            /\ mouse'.deltaX = 0 /\ mouse'.deltaY = 0
    ]_vars

(* ---- the Context lifecycle ---- *)

\* C24: DestroyWindow() resets the window state to its defaults: after it
\* has destroyed a window, ShouldClose() and IsWindowFullscreen() return
\* false, and a window that the next call, CreateWindow, creates starts
\* not closing and not fullscreen.
C24_DestroyWindowResetsState ==
    /\ (ctxObs.last = "DestroyWindow" /\ ctxObs.pre.window) =>
          (~ShouldClose /\ ~IsWindowFullscreen)
    /\ (ctxObs.last = "CreateWindow" /\ ctxObs.prev = "DestroyWindow" /\ ctxObs.ret) =>
          (~ShouldClose /\ ~IsWindowFullscreen)

\* C25: the Context lifecycle only moves Uncreated -> Created ->
\* GraphicsReady -> Destroyed.  A CreateWindow that succeeds started with
\* no window, and once DestroyWindow() has destroyed a window the Context
\* holds no window and no graphics context again, whatever is called.
C25_LifecycleOneWay ==
    /\ (ctxObs.last = "CreateWindow" /\ ctxObs.ret) => ~ctxObs.pre.window
    /\ ctxObs.destroyed => (~m_window /\ ~m_glContext)

\* C26: when InitializeGraphicsContext() is called on a created window and
\* fails in the creation of the context, its activation or the GL loader
\* (ctxObs.arg = "context"), it returns false, GetGraphicsContextHandle()
\* is null, no context object is left of the attempt (stated for a window
\* that held no context before), and the window stays created with its
\* handle, size, visibility and flags unchanged.
C26_FailedGraphicsInitKeepsWindow ==
    (/\ ctxObs.last = "InitializeGraphicsContext"
     /\ ctxObs.arg = "context"
     /\ ~ctxObs.ret
     /\ ctxObs.pre.window) =>
        /\ GetGraphicsContextHandle = "null"
        /\ ~ctxObs.pre.glContext => ~native.glContext
        /\ GetNativeWindowHandle = "window"
        /\ [CtxState EXCEPT !.glContext = ctxObs.pre.glContext] = ctxObs.pre

\* InitializeGraphicsContext() has failed on a window that held a graphics
\* context: the handle is null and the window is still there.
C26_Witness ==
    /\ ctxObs.last = "InitializeGraphicsContext"
    /\ ctxObs.arg = "context"
    /\ ~ctxObs.ret
    /\ ctxObs.pre.window
    /\ ctxObs.pre.glContext
    /\ GetGraphicsContextHandle = "null"
    /\ GetNativeWindowHandle = "window"
    /\ native.window

(* ---- keys after their release, and keys that are down ---- *)

\* C27: when the last raw edge delivered for a key is an up-edge and two
\* Update() calls have followed with no new edge, the key reads Released.
C27_ReleasedWithinTwoUpdates ==
    \A k \in Keys : keyObs[k].up = 2 => GetKeyState(k) = Released

\* C28: while a key is physically down on an initialized instance (a
\* down-edge has been delivered and no release since), GetKeyState does not
\* return Released, whatever the input thread has written in the meantime.
C28_DownKeyNeverReleased ==
    \A k \in Keys : (m_initialized /\ keyObs[k].down) => GetKeyState(k) # Released

\* C29: for every key and mouse button, a Released snapshot entry goes with
\* a current state Released or Pressed (never Held), and a current state
\* Pressed goes with a snapshot entry Released or Pressed (never Held).
C29_SnapshotStateConsistent ==
    /\ \A k \in Keys :
          /\ previousKeys[k] = Released => keys[k] \in {Released, Pressed}
          /\ keys[k] = Pressed => previousKeys[k] \in {Released, Pressed}
    /\ \A b \in Buttons :
          /\ previousButtons[b] = Released => buttons[b] \in {Released, Pressed}
          /\ buttons[b] = Pressed => previousButtons[b] \in {Released, Pressed}

\* A key is Pressed over a Pressed snapshot entry (an Update() has run since
\* its down-edge) while a mouse button is Held over a Held snapshot entry.
C29_Witness ==
    /\ m_initialized
    /\ keys[1] = Pressed /\ previousKeys[1] = Pressed
    /\ buttons[0] = Held /\ previousButtons[0] = Held

(* ---- the connected count against the connected slots ---- *)

\* C30: whenever the caller is not inside Initialize() or Shutdown(),
\* GetConnectedGamepadCount() is the number of gamepad ids for which
\* IsGamepadConnected(id) is true: after a device failed to open in the
\* initial scan, and while the input thread re-scans connectivity.
C30_CountMatchesConnected ==
    (mainPc = "idle" \/ mainPc \in PadQueries) =>
        GetConnectedGamepadCount = Cardinality({i \in Pads : IsGamepadConnected(i)})

(* ---- the facade: registration, Shutdown() and Init() ---- *)

\* C31: the Input instance registered on the Context is none or the
\* facade's live Input instance, and no PollEvents()/WaitEvents() has
\* forwarded an event to a destroyed instance.
C31_RegisteredInputLive ==
    /\ m_inputSystem = 0 \/ m_inputSystem = m_input
    /\ ~osObs.ub

\* C32: whenever Shutdown() can be called, in the state it returns in no
\* Input instance exists and no input thread is running, whatever Init()
\* and GetInput() calls came before; and a second Shutdown() right after
\* it would leave that state as it is.
C32_ShutdownLeavesNoInput ==
    (mainPc = "idle" /\ mutexOwner = "free") =>
        /\ ShutdownInput(m_osInitialized, m_input) = 0
        /\ ShutdownThread(m_osInitialized, m_input, inputThread) # "running"
        /\ ShutdownInput(FALSE, ShutdownInput(m_osInitialized, m_input))
              = ShutdownInput(m_osInitialized, m_input)

(* ---- native objects of the Context ---- *)

\* The kinds of native object a Context creates.
NativeKinds == {"window", "colormap", "visual", "glContext", "dc"}

\* How many native objects of the kind are live when the last call
\* returns: the one the handle member names, and the one whose handle the
\* call has overwritten.
LiveObjects(kind) ==
    (IF native[kind] THEN 1 ELSE 0) + (IF kind \in ctxObs.leaked THEN 1 ELSE 0)

\* C33: a Context has at most one live native window and at most one live
\* graphics context; no call leaves a native object live without a handle
\* through which DestroyWindow() could release it, also when CreateWindow
\* or InitializeGraphicsContext is called again on an existing window or
\* context or CreateWindow fails part-way; and after DestroyWindow() no
\* native window, colormap, visual, device context or graphics context
\* is live.
C33_NativeObjectsReleased ==
    /\ LiveObjects("window") <= 1
    /\ LiveObjects("glContext") <= 1
    /\ ctxObs.leaked = {}
    /\ ctxObs.last = "DestroyWindow" => \A kind \in NativeKinds : LiveObjects(kind) = 0

(* ---- the stored size across fullscreen ---- *)

\* C34: when SetWindowFullscreen(true) has taken a window to fullscreen,
\* the stored width and height, from which SetWindowFullscreen(false)
\* restores the windowed client size, are still the size the window had
\* before: the call puts no other value (the window position) in them.
C34_FullscreenKeepsWindowedSize ==
    (/\ ctxObs.last = "SetWindowFullscreen"
     /\ ctxObs.arg = TRUE
     /\ ~ctxObs.pre.fullscreen
     /\ ctxObs.pre.window) => m_size = ctxObs.pre.size

(* ---- key edges with an unmapped native code ---- *)

\* The delivered native key codes that have no entry in the code tables.
UnmappedLinuxCodes == {c \in LinuxCodes : LinuxScanCodeToKeyCode(c) = 0}

UnmappedVKeys == WinVKeys \ MappedVKeys

\* C35: a raw key edge (X11 key event, evdev key event, key message) whose
\* native code is in no code table changes no entry of the key state array,
\* the entry of KeyCode::Unknown included, and no mouse-button state.
C35_UnmappedKeyEdgeChangesNothing ==
    [][
        (\/ \E c \in UnmappedLinuxCodes, pressed \in BOOLEAN : X11KeyEvent(c, pressed)
         \/ \E c \in UnmappedLinuxCodes, value \in 0..2 : LinuxKeyboardEvent(c, value)
         \/ \E v \in UnmappedVKeys, pressed \in BOOLEAN : WinKeyMessage(v, pressed))
        => UNCHANGED <<keys, buttons>>
    ]_vars

(* ---- one pointer motion reported by the window system and by the device ---- *)

\* The pointer moves by d inside the window: the window system queues a
\* MotionNotify with the new absolute position (osCursor), and the mouse
\* device a relative event with the amount d.
PointerMoves(d) ==
    /\ platform = "Linux"
    /\ m_initialized /\ m_mouseDev /\ inputThread = "running"
    /\ sample.pending = {}
    /\ osCursor[1] + d[1] \in Coords
    /\ osCursor[2] + d[2] \in Coords
    /\ osCursor' = <<osCursor[1] + d[1], osCursor[2] + d[2]>>
    /\ sample' = [sample EXCEPT !.pending = {"motion", "rel"}, !.rel = d]
    /\ UNCHANGED <<queryObs, initObs, osVars, ctxVars, platform, m_hwnd, mutexOwner, keyVars,
                   mouse, lifeVars, keyObs, btnObs, lastMain, padVars, padObsVars>>

NextPointer ==
    \/ LinuxInitialize(FALSE, TRUE, TRUE, 0, {})
    \/ \E d \in UnitSteps : PointerMoves(d)
    \/ "motion" \in sample.pending /\ X11Motion(osCursor[1], osCursor[2])
    \/ "rel" \in sample.pending /\ LinuxMouseRel(sample.rel[1], sample.rel[2])
    \/ LinuxUpdate

SpecPointer == InitInput /\ [][NextPointer]_vars

\* C36: once the motion event and the relative device event of one pointer
\* motion have both been written, in either order, GetMousePosition() is
\* the absolute position the window system reported.
C36_PositionIsWindowSystemPosition ==
    (sample.rel # <<0, 0>> /\ sample.pending = {}) => GetMousePosition = osCursor

(* ---- Init() once per Shutdown() ---- *)

\* C37: Init() returns true exactly when no Init() has been called since
\* the construction or the last Shutdown() (the first call, and the first
\* after a Shutdown()); after any Init() the facade is initialized; and an
\* Init() on an initialized facade leaves the facade initialized and its
\* Context and Input instance as they are.
C37_InitOncePerShutdown ==
    /\ [](InitResult(m_osInitialized, m_context) = ~osObs.inited)
    /\ [](osObs.inited => m_osInitialized)
    /\ [][(OSInit /\ osObs.inited) =>
             /\ m_osInitialized'
             /\ UNCHANGED <<m_context, m_input, m_inputSystem, inputsMade, inputVars, ctxVars>>]_vars

\* Init() has succeeded again after a Shutdown() that destroyed the window
\* and the Input instance of the first initialization.
C37_Witness ==
    /\ osObs.inited /\ m_osInitialized
    /\ ~InitResult(m_osInitialized, m_context)
    /\ ctxObs.last = "DestroyWindow" /\ ctxObs.pre.window
    /\ inputsMade = 1 /\ m_input = 0

====
